---- MODULE Spec2Model ----
(***************************************************************************)
(* Model of the Slack price monitor job (cloud/src/jobs/monitor.js) of     *)
(* slack-price-watch: the state-diff notification engine and the           *)
(* persisted-state lifecycle (load, cleanup, per-item evaluation, save).   *)
(*                                                                         *)
(* The repository also holds other revisions of the same job (the files    *)
(* whose header names cloud/src/jobs/monitor.js too).  Their diff and      *)
(* cooldown functions (buildDiff / inCooldown, diffItem) are modelled as   *)
(* operators next to the ones of monitor.js, so that a statement can be    *)
(* checked against each of them.  The process model (the actions) is the   *)
(* one of cloud/src/jobs/monitor.js.                                       *)
(*                                                                         *)
(* Numbers: JS null / undefined of a numeric field is NULL (-1); every     *)
(* real metric value and timestamp is >= 0.  Titles, URLs and image URLs   *)
(* are left out of snapshots: they are copied from the product and read    *)
(* by no decision.                                                         *)
(***************************************************************************)
EXTENDS Integers, Sequences, FiniteSets, TLC

NULL == 0 - 1

(***************************************************************************)
(* Configuration defaults (numEnv(key, default)).                          *)
(***************************************************************************)
MIN_PRICE_YEN == 2000
PRICE_DELTA_YEN == 200
RANK_DELTA_ABS == 5000
SELLERS_DELTA_ABS == 1
SOLD30_DELTA_ABS == 5
NOTIFY_COOLDOWN_HOURS == 6
STATE_TTL_DAYS == 30
MIN_SELLERS == 3

cooldownSec == NOTIFY_COOLDOWN_HOURS * 3600
ttlSec == STATE_TTL_DAYS * 86400

Abs(n) == IF n < 0 THEN 0 - n ELSE n

(***************************************************************************)
(* A previous snapshot that does not exist (state.asins[asin] undefined).  *)
(***************************************************************************)
NoPrev == [absent |-> TRUE]

Metrics == {"price", "sellers", "rank", "sold30"}

Threshold(m) ==
  CASE m = "price" -> PRICE_DELTA_YEN
    [] m = "sellers" -> SELLERS_DELTA_ABS
    [] m = "rank" -> RANK_DELTA_ABS
    [] m = "sold30" -> SOLD30_DELTA_ABS

(***************************************************************************)
(* monitor.js: absDelta, shouldNotifyByDiff, isInCooldown.                 *)
(* A reason `priceΔ${pd}` is the record [metric, delta] with delta = pd,   *)
(* the absolute difference; the reason "new" is NewReason.                 *)
(***************************************************************************)
NewReason == [metric |-> "new", delta |-> 0]

\* a missing value counted as 0 (the (x ?? 0) of diffItem)
absDelta_nullAsZero(a, b) ==
  Abs((IF a = NULL THEN 0 ELSE a) - (IF b = NULL THEN 0 ELSE b))

absDelta(a, b) == IF a = NULL \/ b = NULL THEN NULL ELSE Abs(a - b)

ReasonFor_gt(prev, cur, m) ==
  LET d == absDelta(prev[m], cur[m])
  IN IF d # NULL /\ d > Threshold(m) THEN <<[metric |-> m, delta |-> d]>> ELSE <<>>

ReasonFor(prev, cur, m) ==
  LET d == absDelta(prev[m], cur[m])
  IN IF d # NULL /\ d >= Threshold(m) THEN <<[metric |-> m, delta |-> d]>> ELSE <<>>

shouldNotifyByDiff_noNew(prev, cur) ==
  LET reasons == IF prev = NoPrev THEN <<>>
                 ELSE ReasonFor(prev, cur, "price") \o ReasonFor(prev, cur, "sellers")
                      \o ReasonFor(prev, cur, "rank") \o ReasonFor(prev, cur, "sold30")
  IN [ok |-> Len(reasons) > 0, reasons |-> reasons]

\* the evaluation stopped at the first metric that fired
shouldNotifyByDiff_firstOnly(prev, cur) ==
  IF prev = NoPrev THEN [ok |-> TRUE, reasons |-> <<NewReason>>]
  ELSE LET reasons == ReasonFor(prev, cur, "price") \o ReasonFor(prev, cur, "sellers")
                      \o ReasonFor(prev, cur, "rank") \o ReasonFor(prev, cur, "sold30")
       IN [ok |-> Len(reasons) > 0,
           reasons |-> IF Len(reasons) > 0 THEN <<reasons[1]>> ELSE <<>>]

shouldNotifyByDiff(prev, cur) ==
  IF prev = NoPrev THEN [ok |-> TRUE, reasons |-> <<NewReason>>]
  ELSE LET reasons == ReasonFor(prev, cur, "price") \o ReasonFor(prev, cur, "sellers")
                      \o ReasonFor(prev, cur, "rank") \o ReasonFor(prev, cur, "sold30")
       IN [ok |-> Len(reasons) > 0, reasons |-> reasons]

isInCooldown_le(prev, t) ==
  IF prev = NoPrev \/ prev.lastNotifiedAt = NULL \/ prev.lastNotifiedAt = 0 THEN FALSE
  ELSE t - prev.lastNotifiedAt <= cooldownSec

isInCooldown(prev, t) ==
  IF prev = NoPrev \/ prev.lastNotifiedAt = NULL \/ prev.lastNotifiedAt = 0 THEN FALSE
  ELSE t - prev.lastNotifiedAt < cooldownSec

(***************************************************************************)
(* The revision with buildDiff / inCooldown (millisecond clock).  A part   *)
(* of the label is [metric, delta] with the signed delta curr - prev; a    *)
(* price that appeared or disappeared is [metric |-> "price", delta |->    *)
(* NULL] (the label shows the two values, no delta).                       *)
(***************************************************************************)
absNum(n) == Abs(n)

PartFor(prev, curr, m) ==
  IF curr[m] # NULL /\ prev[m] # NULL
  THEN LET d == curr[m] - prev[m]
       IN IF absNum(d) >= Threshold(m) THEN <<[metric |-> m, delta |-> d]>> ELSE <<>>
  ELSE <<>>

PricePart(prev, curr) ==
  IF curr.price # NULL /\ prev.price # NULL THEN PartFor(prev, curr, "price")
  ELSE IF curr.price # NULL /\ prev.price = NULL THEN <<[metric |-> "price", delta |-> NULL]>>
  ELSE IF curr.price = NULL /\ prev.price # NULL THEN <<[metric |-> "price", delta |-> NULL]>>
  ELSE <<>>

buildDiff(prev, curr) ==
  IF prev = NoPrev THEN [changed |-> TRUE, label |-> <<NewReason>>]
  ELSE LET parts == PricePart(prev, curr) \o PartFor(prev, curr, "rank")
                    \o PartFor(prev, curr, "sellers") \o PartFor(prev, curr, "sold30")
       IN [changed |-> Len(parts) > 0, label |-> parts]

cooldownMs == NOTIFY_COOLDOWN_HOURS * 60 * 60 * 1000

inCooldown(prev, tMs) ==
  IF prev = NoPrev \/ prev.lastNotifiedAt = NULL \/ prev.lastNotifiedAt = 0 THEN FALSE
  ELSE tMs - prev.lastNotifiedAt < cooldownMs

(***************************************************************************)
(* The revision with diffItem: a missing value counts as 0.                *)
(***************************************************************************)
OrZero(v) == IF v = NULL THEN 0 ELSE v

ItemReason(prev, curr, m) ==
  IF Abs(OrZero(curr[m]) - OrZero(prev[m])) >= Threshold(m)
  THEN <<[metric |-> m, from |-> prev[m], to |-> curr[m]]>> ELSE <<>>

diffItem(prev, curr) ==
  IF prev = NoPrev THEN [kind |-> "NEW", changed |-> TRUE, reasons |-> <<NewReason>>]
  ELSE LET reasons == ItemReason(prev, curr, "price") \o ItemReason(prev, curr, "rank")
                      \o ItemReason(prev, curr, "sellers") \o ItemReason(prev, curr, "sold30")
       IN [kind |-> IF Len(reasons) > 0 THEN "CHANGED" ELSE "NO_DIFF",
           changed |-> Len(reasons) > 0, reasons |-> reasons]

(***************************************************************************)
(* Bounds of the model.                                                    *)
(***************************************************************************)
MaxRuns == 2
MaxTicks == 2
MaxList == 2

Asins == {"A1", "A2"}

(***************************************************************************)
(* A finder result of more than one detail batch: chunk(asins, 20) (428)   *)
(* cuts LongList into <<"A1", 19 fillers>> and <<"A2">>.  The finder       *)
(* returns up to FINDER_MAX_PAGES * FINDER_PER_PAGE = 500 asins (19-20).   *)
(***************************************************************************)
Fillers ==
  <<"B02", "B03", "B04", "B05", "B06", "B07", "B08", "B09", "B10", "B11",
    "B12", "B13", "B14", "B15", "B16", "B17", "B18", "B19", "B20">>

LongList == <<"A1">> \o Fillers \o <<"A2">>

AllAsins == Asins \cup {Fillers[i] : i \in 1..Len(Fillers)}

(***************************************************************************)
(* PROFILES (monitor.js 47-51) and the environments the runs are checked   *)
(* with: MAX_NOTIFY and PROFILE_LIMIT at their defaults or at 1 (so that a *)
(* budget is reached with the few items of the model), ONLY_PROFILE unset  *)
(* or naming one profile.                                                  *)
(***************************************************************************)
PROFILES ==
  << [key |-> "toys", excludeDigital |-> FALSE],
     [key |-> "games", excludeDigital |-> TRUE],
     [key |-> "hobby", excludeDigital |-> FALSE] >>

MAX_NOTIFY_DEFAULT == 30
PROFILE_LIMIT_DEFAULT == 30
CHUNK_SIZE == 20

Configs ==
  [MAX_NOTIFY : {1, MAX_NOTIFY_DEFAULT}, PROFILE_LIMIT : {1, PROFILE_LIMIT_DEFAULT},
   ONLY_PROFILE : {"", "games"}, KEEPA_API_KEY : {TRUE}, SLACK_WEBHOOK_URL : {TRUE}]

(***************************************************************************)
(* KEEPA_API_KEY and SLACK_WEBHOOK_URL: whether the variable is set.  The  *)
(* modules services/keepa.js and services/slack.js, which monitor.js       *)
(* imports (13-14), throw while they are loaded when theirs is missing.    *)
(***************************************************************************)
StartConfigs ==
  [MAX_NOTIFY : {MAX_NOTIFY_DEFAULT}, PROFILE_LIMIT : {PROFILE_LIMIT_DEFAULT},
   ONLY_PROFILE : {"games"}, KEEPA_API_KEY : BOOLEAN, SLACK_WEBHOOK_URL : BOOLEAN]

RequiredEnv_keyOnly(c) == c.KEEPA_API_KEY

RequiredEnv(c) == c.KEEPA_API_KEY /\ c.SLACK_WEBHOOK_URL

\* main: targets = PROFILES, or the one profile ONLY_PROFILE names
Targets_first(c) == <<PROFILES[1]>>

Targets(c) ==
  LET filtered == SelectSeq(PROFILES, LAMBDA q : q.key = c.ONLY_PROFILE)
  IN IF c.ONLY_PROFILE # "" /\ Len(filtered) > 0 THEN filtered ELSE PROFILES

(***************************************************************************)
(* A raw product of the detail call: stats.current[0] (amazon),            *)
(* stats.current[1] (new), stats.current[3] (rank), stats.totalOfferCount  *)
(* (offers), stats.salesRankDrops30/90/180, whether it has an asin and     *)
(* whether its title matches DIGITAL_KEYWORDS.  NULL: missing or not a     *)
(* number (Keepa's own "no value" is -1 as well).                          *)
(***************************************************************************)
BaseRaw ==
  [hasAsin |-> TRUE, digital |-> FALSE, amazon |-> NULL, new |-> MIN_PRICE_YEN,
   rank |-> 500, offers |-> MIN_SELLERS, drops30 |-> 10, drops90 |-> NULL,
   drops180 |-> NULL]

RawSet ==
  { BaseRaw,
    [BaseRaw EXCEPT !.new = MIN_PRICE_YEN + PRICE_DELTA_YEN],
    [BaseRaw EXCEPT !.offers = MIN_SELLERS + SELLERS_DELTA_ABS,
                    !.rank = 500 + RANK_DELTA_ABS,
                    !.drops30 = NULL, !.drops90 = 10 + SOLD30_DELTA_ABS],
    [BaseRaw EXCEPT !.offers = MIN_SELLERS - 1, !.new = MIN_PRICE_YEN + PRICE_DELTA_YEN],
    [BaseRaw EXCEPT !.offers = NULL],
    [BaseRaw EXCEPT !.new = MIN_PRICE_YEN - 1],
    [BaseRaw EXCEPT !.new = NULL],
    [BaseRaw EXCEPT !.amazon = MIN_PRICE_YEN + 500],
    [BaseRaw EXCEPT !.digital = TRUE],
    [BaseRaw EXCEPT !.hasAsin = FALSE] }

(***************************************************************************)
(* Keepa helpers (monitor.js 179-196) and the fields of cur (459-486).     *)
(***************************************************************************)
PositiveOrNull(v) == IF v # NULL /\ v > 0 THEN v ELSE NULL

getStatsBasics(raw) ==
  [amazonPrice |-> PositiveOrNull(raw.amazon),
   newPrice |-> PositiveOrNull(raw.new),
   salesRank |-> PositiveOrNull(raw.rank)]

getTotalOfferCount(raw) == IF raw.offers # NULL /\ raw.offers >= 0 THEN raw.offers ELSE NULL

Coalesce(a, b) == IF a # NULL THEN a ELSE b

monthlySold(raw) == Coalesce(raw.drops30, Coalesce(raw.drops90, raw.drops180))

derivedPrice(raw) ==
  Coalesce(getStatsBasics(raw).newPrice, getStatsBasics(raw).amazonPrice)

curOf(raw) ==
  [price |-> derivedPrice(raw), sellers |-> getTotalOfferCount(raw),
   rank |-> getStatsBasics(raw).salesRank, sold30 |-> monthlySold(raw)]

pickStateFields(cur) ==
  [price |-> cur.price, sellers |-> cur.sellers, rank |-> cur.rank, sold30 |-> cur.sold30]

(***************************************************************************)
(* State.                                                                  *)
(*   now, ticks     the clock nowSec() reads, and how often it advanced    *)
(*   file, tmp      STATE_FILE and STATE_FILE.tmp on disk                  *)
(*   frozen         whether the upstream data stays the same between runs  *)
(*   upstream       the raw product the detail call returns for an asin    *)
(*                  (fixed once returned, until the upstream changes)      *)
(*   found          the asin list the finder returns for a profile         *)
(*   cfg            MAX_NOTIFY and PROFILE_LIMIT of the environment        *)
(*   pc             where the monitor process is; "idle": no process       *)
(*   state          main's state object {updatedAt, asins}                 *)
(*   pIdx, remaining, totalNotified      main's loop over the profiles     *)
(*   asins, ci, j, picked                processProfile's loops            *)
(*   p              the product of the last loop iteration and what the    *)
(*                  iteration did with it                                  *)
(*   runNo, accepted, supp, ended, lastSent   history, read by no action:  *)
(*                  the run's number, the asins accepted for notification, *)
(*                  the items a cooldown suppressed, and how the last      *)
(*                  process ended; for each asin its last delivered        *)
(*                  notification: when, in which run, and whether that run *)
(*                  has written the state file since                       *)
(*   dPrev, dCur, dNow, dRes   inputs and result of a function that is     *)
(*                  checked alone: the diff and cooldown functions         *)
(*                  (SpecDiff), cleanupState (SpecPrune), postToSlack      *)
(*                  (SpecSlack), withRetry (SpecRetry), the finder         *)
(*                  (SpecFinder), the product loop body (SpecFilter);      *)
(*                  under SpecRunner dRes is the state of the periodic     *)
(*                  runner                                                 *)
(***************************************************************************)
VARIABLES now, ticks, file, tmp, frozen, upstream, found, cfg,
          pc, state, pIdx, remaining, totalNotified, asins, ci, j, picked, p,
          runNo, accepted, supp, ended, lastSent,
          dPrev, dCur, dNow, dRes

envVars == <<now, ticks, file, tmp, frozen, upstream, found, cfg>>
procVars == <<pc, state, pIdx, remaining, totalNotified, asins, ci, j, picked, p>>
histVars == <<runNo, accepted, supp, ended, lastSent>>
diffVars == <<dPrev, dCur, dNow, dRes>>
vars == <<envVars, procVars, histVars, diffVars>>

EmptyMap == [a \in {} |-> NoPrev]
NoRaw == [unknown |-> TRUE]
NotYet == <<"?">>
NoProduct == [outcome |-> "none"]
NoFile == [kind |-> "absent", updatedAt |-> 0, asins |-> EmptyMap]

\* the map replaced by the one entry
Put_only(m, k, v) == [a \in {k} |-> v]

\* m[k] = v
Put(m, k, v) == [a \in (DOMAIN m) \cup {k} |-> IF a = k THEN v ELSE m[a]]
Min(a, b) == IF a < b THEN a ELSE b

ProfileKeys == {PROFILES[i].key : i \in 1..Len(PROFILES)}

AsinLists ==
  {<<>>} \cup {<<a>> : a \in Asins}
  \cup (IF MaxList >= 2 THEN {<<a, b>> : a \in Asins, b \in Asins} \ {<<a, a>> : a \in Asins}
        ELSE {})

(***************************************************************************)
(* loadState (124-139), cleanupState (154-174), chunk (88-92).             *)
(***************************************************************************)
FreshState(t) == [updatedAt |-> t, asins |-> EmptyMap]

\* readFileSync fails, JSON.parse fails (a truncated file too), or the value
\* is not an object: an exception inside the try block of loadState
Throws(f) == f.kind \in {"unreadable", "invalid", "truncated", "nonobject"}
Threw == [threw |-> TRUE]

loadState_noCatch(f, t) ==
  CASE f.kind = "absent" -> FreshState(t)
    [] Throws(f) -> Threw
    [] f.kind = "noasins" -> [updatedAt |-> f.updatedAt, asins |-> EmptyMap]
    [] f.kind = "state" -> [updatedAt |-> f.updatedAt, asins |-> f.asins]

loadState(f, t) ==
  CASE f.kind = "absent" -> FreshState(t)
    [] Throws(f) -> FreshState(t)
    [] f.kind = "noasins" -> [updatedAt |-> f.updatedAt, asins |-> EmptyMap]
    [] f.kind = "state" -> [updatedAt |-> f.updatedAt, asins |-> f.asins]

Expired_le(e, t) == e.lastSeenAt # NULL /\ e.lastSeenAt > 0 /\ e.lastSeenAt <= t - ttlSec

Expired(e, t) == e.lastSeenAt # NULL /\ e.lastSeenAt > 0 /\ e.lastSeenAt < t - ttlSec

\* the count cleanupState returns (removed)
cleanupRemoved(st, t) == Cardinality({x \in DOMAIN st.asins : Expired(st.asins[x], t)})

cleanupState(st, t) ==
  [st EXCEPT !.asins = [a \in {x \in DOMAIN st.asins : ~Expired(st.asins[x], t)} |-> st.asins[a]]]

NumChunks(list) == (Len(list) + CHUNK_SIZE - 1) \div CHUNK_SIZE
Chunk(list, k) == SubSeq(list, (k - 1) * CHUNK_SIZE + 1, Min(k * CHUNK_SIZE, Len(list)))

(***************************************************************************)
(* One iteration of processProfile's product loop (452-519): what it does  *)
(* with the product, and the entry it writes.                              *)
(***************************************************************************)
Outcome_noSellerFilter(profile, raw, prevFull, t) ==
  LET cur == curOf(raw)
      b == getStatsBasics(raw)
  IN IF ~raw.hasAsin THEN "noasin"
     ELSE IF profile.excludeDigital /\ raw.digital THEN "digital"
     ELSE IF b.amazonPrice # NULL /\ b.amazonPrice > 0 THEN "amazon"
     ELSE IF cur.price = NULL \/ cur.price < MIN_PRICE_YEN THEN "minprice"
     ELSE IF prevFull # NoPrev /\ isInCooldown(prevFull, t) THEN "cooldown"
     ELSE IF ~shouldNotifyByDiff(prevFull, cur).ok THEN "nodiff"
     ELSE "picked"

Outcome_noPriceFloor(profile, raw, prevFull, t) ==
  LET cur == curOf(raw)
      b == getStatsBasics(raw)
  IN IF ~raw.hasAsin THEN "noasin"
     ELSE IF profile.excludeDigital /\ raw.digital THEN "digital"
     ELSE IF b.amazonPrice # NULL /\ b.amazonPrice > 0 THEN "amazon"
     ELSE IF cur.sellers = NULL \/ cur.sellers < MIN_SELLERS THEN "sellers"
     ELSE IF prevFull # NoPrev /\ isInCooldown(prevFull, t) THEN "cooldown"
     ELSE IF ~shouldNotifyByDiff(prevFull, cur).ok THEN "nodiff"
     ELSE "picked"

Outcome_noAmazonFilter(profile, raw, prevFull, t) ==
  LET cur == curOf(raw)
  IN IF ~raw.hasAsin THEN "noasin"
     ELSE IF profile.excludeDigital /\ raw.digital THEN "digital"
     ELSE IF cur.sellers = NULL \/ cur.sellers < MIN_SELLERS THEN "sellers"
     ELSE IF cur.price = NULL \/ cur.price < MIN_PRICE_YEN THEN "minprice"
     ELSE IF prevFull # NoPrev /\ isInCooldown(prevFull, t) THEN "cooldown"
     ELSE IF ~shouldNotifyByDiff(prevFull, cur).ok THEN "nodiff"
     ELSE "picked"

Outcome(profile, raw, prevFull, t) ==
  LET cur == curOf(raw)
      b == getStatsBasics(raw)
  IN IF ~raw.hasAsin THEN "noasin"
     ELSE IF profile.excludeDigital /\ raw.digital THEN "digital"
     ELSE IF b.amazonPrice # NULL /\ b.amazonPrice > 0 THEN "amazon"
     ELSE IF cur.sellers = NULL \/ cur.sellers < MIN_SELLERS THEN "sellers"
     ELSE IF cur.price = NULL \/ cur.price < MIN_PRICE_YEN THEN "minprice"
     ELSE IF prevFull # NoPrev /\ isInCooldown(prevFull, t) THEN "cooldown"
     ELSE IF ~shouldNotifyByDiff(prevFull, cur).ok THEN "nodiff"
     ELSE "picked"

prevSlimOf(prevFull) ==
  IF prevFull = NoPrev THEN NoPrev
  ELSE [price |-> prevFull.price, sellers |-> prevFull.sellers, rank |-> prevFull.rank,
        sold30 |-> prevFull.sold30]

Written == {"cooldown", "nodiff", "picked"}

\* the product passes the filters of lines 454-474
Admitted(profile, raw) ==
  /\ raw.hasAsin
  /\ ~(profile.excludeDigital /\ raw.digital)
  /\ getStatsBasics(raw).amazonPrice = NULL
  /\ curOf(raw).sellers # NULL /\ curOf(raw).sellers >= MIN_SELLERS
  /\ curOf(raw).price # NULL /\ curOf(raw).price >= MIN_PRICE_YEN

\* a significant diff inside the cooldown window of the previous snapshot
SuppressedChange(profile, raw, prevFull, t) ==
  /\ Admitted(profile, raw)
  /\ prevFull # NoPrev
  /\ prevFull.lastNotifiedAt # NULL
  /\ prevFull.lastNotifiedAt > 0
  /\ t - prevFull.lastNotifiedAt < cooldownSec
  /\ shouldNotifyByDiff(prevSlimOf(prevFull), curOf(raw)).ok

NewEntry_keepMetrics(outcome, prevFull, cur, t) ==
  IF outcome = "cooldown"
  THEN [prevFull EXCEPT !.lastSeenAt = t]
  ELSE [price |-> cur.price, sellers |-> cur.sellers, rank |-> cur.rank,
        sold30 |-> cur.sold30, lastSeenAt |-> t,
        lastNotifiedAt |-> IF outcome = "picked" THEN t
                           ELSE IF prevFull = NoPrev THEN NULL ELSE prevFull.lastNotifiedAt]

\* the notification stamp read after the send instead of in the statement
\* that writes the entry
NewEntry_stampAfterSend(outcome, prevFull, cur, t) ==
  [price |-> pickStateFields(cur).price, sellers |-> pickStateFields(cur).sellers,
   rank |-> pickStateFields(cur).rank, sold30 |-> pickStateFields(cur).sold30,
   lastSeenAt |-> t,
   lastNotifiedAt |-> IF outcome = "picked" THEN t + 1
                      ELSE IF prevFull = NoPrev THEN NULL ELSE prevFull.lastNotifiedAt]

NewEntry(outcome, prevFull, cur, t) ==
  [price |-> pickStateFields(cur).price, sellers |-> pickStateFields(cur).sellers,
   rank |-> pickStateFields(cur).rank, sold30 |-> pickStateFields(cur).sold30,
   lastSeenAt |-> t,
   lastNotifiedAt |-> IF outcome = "picked" THEN t
                      ELSE IF prevFull = NoPrev THEN NULL ELSE prevFull.lastNotifiedAt]

PrevOf_missing(st, asin) == NoPrev

PrevOf(st, asin) == IF asin \in DOMAIN st.asins THEN st.asins[asin] ELSE NoPrev

(***************************************************************************)
(* Initial states.  The process is not running; the clock is past the      *)
(* retention window, so that cutoffs are positive.  The state file is      *)
(* absent (a first run); InitialFiles are the files a run can find that    *)
(* no run of the job has written, and one an earlier run has saved.        *)
(***************************************************************************)
InitialFiles ==
  { NoFile,
    [kind |-> "unreadable", updatedAt |-> 0, asins |-> EmptyMap],
    [kind |-> "invalid", updatedAt |-> 0, asins |-> EmptyMap],
    [kind |-> "nonobject", updatedAt |-> 0, asins |-> EmptyMap],
    [kind |-> "noasins", updatedAt |-> 0, asins |-> EmptyMap],
    [kind |-> "state", updatedAt |-> 2 * ttlSec - 1,
     asins |-> [a \in {"A1"} |->
                 [price |-> MIN_PRICE_YEN, sellers |-> MIN_SELLERS, rank |-> 500,
                  sold30 |-> 10, lastSeenAt |-> 2 * ttlSec - 1,
                  lastNotifiedAt |-> 2 * ttlSec - 1]]] }

ProcIdle ==
  /\ pc = "idle"
  /\ state = FreshState(0)
  /\ pIdx = 0
  /\ remaining = 0
  /\ totalNotified = 0
  /\ asins = <<>>
  /\ ci = 0
  /\ j = 0
  /\ picked = <<>>
  /\ p = NoProduct

DiffIdle ==
  /\ dPrev = NoPrev
  /\ dCur = curOf(BaseRaw)
  /\ dNow = 0
  /\ dRes = [done |-> FALSE]

NoUpstream == [a \in AllAsins |-> NoRaw]

InitRun ==
  /\ now = 2 * ttlSec
  /\ ticks = 0
  /\ tmp = NoFile
  /\ upstream = NoUpstream
  /\ found = [k \in ProfileKeys |-> NotYet]
  /\ ProcIdle
  /\ accepted = {}
  /\ supp = EmptyMap
  /\ ended = "never"
  /\ lastSent = EmptyMap

Init ==
  /\ InitRun
  /\ file = NoFile
  /\ runNo = 0
  /\ cfg \in {c \in Configs : c.PROFILE_LIMIT = PROFILE_LIMIT_DEFAULT /\ c.ONLY_PROFILE = "games"}
  /\ frozen = FALSE
  /\ DiffIdle

(***************************************************************************)
(* The process ends: its memory is gone, the files stay.                   *)
(***************************************************************************)
ProcGone(how) ==
  /\ pc' = "idle"
  /\ state' = FreshState(0)
  /\ pIdx' = 0
  /\ remaining' = 0
  /\ totalNotified' = 0
  /\ asins' = <<>>
  /\ ci' = 0
  /\ j' = 0
  /\ picked' = <<>>
  /\ p' = NoProduct
  /\ ended' = how
  /\ upstream' = IF frozen THEN upstream ELSE NoUpstream
  /\ found' = IF frozen THEN found ELSE [k \in ProfileKeys |-> NotYet]

(***************************************************************************)
(* The clock.  While a run is in progress it advances second by second,    *)
(* where the process waits (the detail call, the webhook); between two     *)
(* runs by just under the cooldown window or by the retention window.  The *)
(* time of the first run is the origin.                                    *)
(***************************************************************************)
IdleSteps == {cooldownSec - 1, ttlSec}

TickRun ==
  /\ pc \in {"chunk", "post"}
  /\ ticks < MaxTicks
  /\ now' = now + 1
  /\ ticks' = ticks + 1
  /\ p' = NoProduct
  /\ UNCHANGED <<file, tmp, frozen, upstream, found, cfg, pc, state, pIdx, remaining,
                 totalNotified, asins, ci, j, picked, histVars, diffVars>>

TickIdle ==
  /\ pc = "idle"
  /\ runNo > 0
  /\ runNo < MaxRuns
  /\ ticks < MaxTicks
  /\ \E d \in IdleSteps : now' = now + d
  /\ ticks' = ticks + 1
  /\ UNCHANGED <<file, tmp, frozen, upstream, found, cfg, procVars, histVars, diffVars>>

(***************************************************************************)
(* main (552-581).                                                         *)
(***************************************************************************)
StartRun ==
  /\ pc = "idle"
  /\ runNo < MaxRuns
  /\ RequiredEnv(cfg)
  /\ pc' = "load"
  /\ runNo' = runNo + 1
  /\ accepted' = {}
  /\ supp' = EmptyMap
  /\ ended' = "running"
  /\ UNCHANGED <<now, ticks, file, tmp, frozen, upstream, found, cfg, state, pIdx, remaining,
                 totalNotified, asins, ci, j, picked, p, lastSent, diffVars>>

\* an imported module throws while it is loaded: no line of monitor.js runs,
\* node reports the error and ends with status 1
StartFail ==
  /\ pc = "idle"
  /\ runNo < MaxRuns
  /\ ~RequiredEnv(cfg)
  /\ runNo' = runNo + 1
  /\ accepted' = {}
  /\ supp' = EmptyMap
  /\ ended' = "fatal"
  /\ UNCHANGED <<now, ticks, file, tmp, frozen, upstream, found, cfg, pc, state, pIdx,
                 remaining, totalNotified, asins, ci, j, picked, p, lastSent, diffVars>>

\* an exception that left loadState would leave main: main().catch, exitCode 1
LoadState ==
  /\ pc = "load"
  /\ LET st == loadState(file, now)
     IN IF st = Threw
        THEN /\ ProcGone("fatal")
             /\ UNCHANGED <<now, ticks, file, tmp, frozen, cfg, runNo, accepted, supp, lastSent, diffVars>>
        ELSE /\ state' = st
             /\ pc' = "cleanup"
             /\ UNCHANGED <<envVars, pIdx, remaining, totalNotified, asins, ci, j, picked, p,
                            histVars, diffVars>>

CleanupState ==
  /\ pc = "cleanup"
  /\ state' = cleanupState(state, now)
  /\ pIdx' = 1
  /\ remaining' = cfg.MAX_NOTIFY
  /\ totalNotified' = 0
  /\ pc' = "profile"
  /\ UNCHANGED <<envVars, asins, ci, j, picked, p, histVars, diffVars>>

\* for (const profile of targets) { if (remaining <= 0) break; ... }
ProfilesDone ==
  /\ pc = "profile"
  /\ pIdx > Len(Targets(cfg)) \/ remaining <= 0
  /\ pc' = "save"
  /\ UNCHANGED <<envVars, state, pIdx, remaining, totalNotified, asins, ci, j, picked, p,
                 histVars, diffVars>>

(***************************************************************************)
(* fetchAsinsForProfile (246-272).  pages[k] is what the finder answers to *)
(* the request for page k - 1 (nothing when there is no such element); the *)
(* result is the list of distinct asins and the requests made.             *)
(***************************************************************************)
MaxPages == 2

\* every asin of the page pushed, seen before or not
pushNew_all(asins_, list) == asins_ \o list

\* if (!asins.includes(asin)) asins.push(asin) (264-266)
RECURSIVE pushNew(_, _)
pushNew(asins_, list) ==
  IF Len(list) = 0 THEN asins_
  ELSE pushNew(IF \E i \in 1..Len(asins_) : asins_[i] = Head(list)
               THEN asins_ ELSE Append(asins_, Head(list)),
               Tail(list))

lastPage_never(list, perPage) == FALSE

\* if (list.length < FINDER_PER_PAGE) break; (267)
lastPage(list, perPage) == Len(list) < perPage

RECURSIVE finderLoop(_, _, _, _, _, _)
finderLoop(pages, page, maxPages, perPage, asins_, requests) ==
  IF ~(page < maxPages)
  THEN [asins |-> asins_, requests |-> requests]
  ELSE LET list == IF page + 1 <= Len(pages) THEN pages[page + 1] ELSE <<>>
           reqs == Append(requests, [page |-> page, size |-> Len(list)])
       IN IF Len(list) = 0
          THEN [asins |-> asins_, requests |-> reqs]
          ELSE IF lastPage(list, perPage)
               THEN [asins |-> pushNew(asins_, list), requests |-> reqs]
               ELSE finderLoop(pages, page + 1, maxPages, perPage, pushNew(asins_, list), reqs)

fetchAsinsForProfile(pages, maxPages, perPage) ==
  finderLoop(pages, 0, maxPages, perPage, <<>>, <<>>)

(***************************************************************************)
(* processProfile (419-534).  The finder answers with a list of asins (the *)
(* pages requested, one after the other), of which fetchAsinsForProfile    *)
(* keeps the first occurrences; or its retries are exhausted and the error *)
(* leaves processProfile and main: main().catch sets exitCode 1.           *)
(***************************************************************************)
FetchAsins ==
  /\ pc = "profile"
  /\ pIdx <= Len(Targets(cfg))
  /\ remaining > 0
  /\ \E list \in AsinLists \cup ({found[Targets(cfg)[pIdx].key]} \ {NotYet}) :
       /\ found[Targets(cfg)[pIdx].key] \in {NotYet, list}
       /\ found' = IF frozen THEN [found EXCEPT ![Targets(cfg)[pIdx].key] = list] ELSE found
       /\ IF pushNew(<<>>, list) = <<>>
          THEN /\ pIdx' = pIdx + 1
               /\ UNCHANGED <<pc, asins, ci, j, picked>>
          ELSE /\ asins' = pushNew(<<>>, list)
               /\ ci' = 1
               /\ j' = 0
               /\ picked' = <<>>
               /\ pc' = "chunk"
               /\ UNCHANGED pIdx
  /\ UNCHANGED <<now, ticks, file, tmp, frozen, upstream, cfg, state, remaining,
                 totalNotified, p, histVars, diffVars>>

FetchAsinsFail ==
  /\ pc = "profile"
  /\ pIdx <= Len(Targets(cfg))
  /\ remaining > 0
  /\ ProcGone("fatal")
  /\ UNCHANGED <<now, ticks, file, tmp, frozen, cfg, runNo, accepted, supp, lastSent, diffVars>>

\* picked.length >= remainingNotify (437, 518)
budgetReached_never(n, remainingNotify) == FALSE

budgetReached(n, remainingNotify) == n >= remainingNotify

\* for (const ch of asinChunks) { if (picked.length >= remainingNotify) break; ... }
ChunksDone ==
  /\ pc = "chunk"
  /\ ci > NumChunks(asins) \/ budgetReached(Len(picked), remaining)
  /\ pc' = "post"
  /\ p' = NoProduct
  /\ UNCHANGED <<envVars, state, pIdx, remaining, totalNotified, asins, ci, j, picked,
                 histVars, diffVars>>

\* what the catch around keepaProduct does (445-448): log and continue
onDetailsError_rethrow == "fatal"

onDetailsError == "continue"

\* keepaProduct(ch) failed after its retries: logged, continue with the next chunk
FetchDetailsFail ==
  /\ pc = "chunk"
  /\ ci <= NumChunks(asins)
  /\ ~budgetReached(Len(picked), remaining)
  /\ IF onDetailsError = "continue"
     THEN /\ ci' = ci + 1
          /\ p' = NoProduct
          /\ UNCHANGED <<envVars, pc, state, pIdx, remaining, totalNotified, asins, j, picked,
                         histVars, diffVars>>
     ELSE /\ ProcGone("fatal")
          /\ UNCHANGED <<now, ticks, file, tmp, frozen, cfg, runNo, accepted, supp, lastSent, diffVars>>

FetchDetails ==
  /\ pc = "chunk"
  /\ ci <= NumChunks(asins)
  /\ ~budgetReached(Len(picked), remaining)
  /\ j' = 1
  /\ pc' = "item"
  /\ p' = NoProduct
  /\ UNCHANGED <<envVars, state, pIdx, remaining, totalNotified, asins, ci, picked,
                 histVars, diffVars>>

EvalProduct ==
  /\ pc = "item"
  /\ LET asin == Chunk(asins, ci)[j]
         prevFull == PrevOf(state, asin)
     IN \E raw \in RawSet :
          LET cur == curOf(raw)
              outcome == Outcome(Targets(cfg)[pIdx], raw, prevFull, now)
              entry == NewEntry(outcome, prevFull, cur, now)
              item == [asin |-> asin, cur |-> cur, prev |-> prevSlimOf(prevFull),
                       diffReasons |-> shouldNotifyByDiff(prevFull, cur).reasons]
              nowPicked == IF outcome = "picked" THEN Append(picked, item) ELSE picked
              stop == /\ outcome = "picked"
                      /\ \/ Len(nowPicked) >= cfg.PROFILE_LIMIT
                         \/ budgetReached(Len(nowPicked), remaining)
          IN /\ upstream[asin] \in {NoRaw, raw}
             /\ upstream' = IF frozen THEN [upstream EXCEPT ![asin] = raw] ELSE upstream
             /\ state' = IF outcome \in Written
                         THEN [state EXCEPT !.asins = Put(state.asins, asin, entry)]
                         ELSE state
             /\ picked' = nowPicked
             /\ p' = [outcome |-> outcome, asin |-> asin, raw |-> raw, prev |-> prevFull]
             /\ accepted' = IF outcome = "picked" THEN accepted \cup {asin} ELSE accepted
             /\ supp' = IF SuppressedChange(Targets(cfg)[pIdx], raw, prevFull, now)
                        THEN Put(supp, asin, [cur |-> cur,
                                              lastNotifiedAt |-> prevFull.lastNotifiedAt])
                        ELSE supp
             /\ IF stop \/ j >= Len(Chunk(asins, ci))
                THEN /\ ci' = ci + 1
                     /\ pc' = "chunk"
                     /\ UNCHANGED j
                ELSE /\ j' = j + 1
                     /\ UNCHANGED <<pc, ci>>
  /\ UNCHANGED <<now, ticks, file, tmp, frozen, found, cfg, pIdx, remaining, totalNotified,
                 asins, runNo, ended, lastSent, diffVars>>

(***************************************************************************)
(* postToSlack (383-414).  SLACK_BATCH (21) is the environment value       *)
(* (NULL: unset or not a number) clamped to 1..3.  The items are numbered  *)
(* 1..n; gOk holds the groups whose webhook call succeeds and iOk the      *)
(* items whose single call succeeds.  The result is the sequence of        *)
(* webhook calls and the returned count.                                   *)
(***************************************************************************)
MaxItems == 4

SLACK_BATCH_DEFAULT == 1

BatchEnvValues == {NULL, 0, 1, 2, 3, 4}

Max(a, b) == IF a > b THEN a ELSE b

numEnv(v, def) == IF v = NULL THEN def ELSE v

clamp(v, min, max) == Max(min, Min(max, v))

SLACK_BATCH(env) == clamp(numEnv(env, SLACK_BATCH_DEFAULT), 1, 3)

chunk(array, size) ==
  [k \in 1..((Len(array) + size - 1) \div size) |->
     SubSeq(array, (k - 1) * size + 1, Min(k * size, Len(array)))]

Call(kind, items, ok) == [kind |-> kind, items |-> items, ok |-> ok]

\* a failed group is dropped: no single sends
sendGroup_noFallback(group, gi, gOk, iOk) ==
  [calls |-> <<Call("group", group, gi \in gOk)>>,
   sent |-> IF gi \in gOk THEN Len(group) ELSE 0]

\* the body of the loop over the groups (389-411)
sendGroup(group, gi, gOk, iOk) ==
  IF gi \in gOk
  THEN [calls |-> <<Call("group", group, TRUE)>>, sent |-> Len(group)]
  ELSE [calls |-> <<Call("group", group, FALSE)>> \o
                  [k \in 1..Len(group) |-> Call("single", <<group[k]>>, group[k] \in iOk)],
        sent |-> Cardinality({k \in 1..Len(group) : group[k] \in iOk})]

RECURSIVE sendGroups(_, _, _, _)
sendGroups(groups, gi, gOk, iOk) ==
  IF gi > Len(groups)
  THEN [calls |-> <<>>, sent |-> 0]
  ELSE LET head == sendGroup(groups[gi], gi, gOk, iOk)
           rest == sendGroups(groups, gi + 1, gOk, iOk)
       IN [calls |-> head.calls \o rest.calls, sent |-> head.sent + rest.sent]

\* the items of the webhook calls that succeeded
deliveredItems(calls) ==
  {i \in UNION {{c.items[k] : k \in 1..Len(c.items)} : c \in {calls[n] : n \in 1..Len(calls)}} :
     \E n \in 1..Len(calls) :
       calls[n].ok /\ \E k \in 1..Len(calls[n].items) : calls[n].items[k] = i}

postToSlack(items, size, gOk, iOk) ==
  IF Len(items) = 0
  THEN [calls |-> <<>>, sent |-> 0]
  ELSE sendGroups(chunk(items, size), 1, gOk, iOk)

(***************************************************************************)
(* The end of processProfile (522-533) and the return to main (573-575):   *)
(* the picked items are posted with the default SLACK_BATCH, each webhook  *)
(* call succeeds or fails.  main: remaining -= used; totalNotified += used.*)
(***************************************************************************)
PostToSlack ==
  /\ pc = "post"
  /\ \E gOk \in SUBSET (1..Len(picked)), iOk \in SUBSET (1..Len(picked)) :
       LET r == postToSlack([i \in 1..Len(picked) |-> i], SLACK_BATCH(NULL), gOk, iOk)
           got == {picked[i].asin : i \in deliveredItems(r.calls)}
       IN /\ remaining' = remaining - r.sent
          /\ totalNotified' = totalNotified + r.sent
          /\ lastSent' = [a \in (DOMAIN lastSent) \cup got |->
                            IF a \in got THEN [at |-> now, run |-> runNo, saved |-> FALSE]
                            ELSE lastSent[a]]
  /\ pIdx' = pIdx + 1
  /\ pc' = "profile"
  /\ asins' = <<>>
  /\ ci' = 0
  /\ j' = 0
  /\ picked' = <<>>
  /\ UNCHANGED <<envVars, state, p, runNo, accepted, supp, ended, diffVars>>

(***************************************************************************)
(* saveState (141-152): mkdir and updatedAt, writeFileSync(tmp) (the file  *)
(* is opened truncated, then written), renameSync(tmp, STATE_FILE).  An    *)
(* error of any of them is caught and logged; main goes on to its end.     *)
(***************************************************************************)
Content(st) == [kind |-> "state", updatedAt |-> st.updatedAt, asins |-> st.asins]
Truncated == [kind |-> "truncated", updatedAt |-> 0, asins |-> EmptyMap]

\* renameSync(tmp, STATE_FILE): the primary path names the content of tmp
renameSync_copy(src) == Truncated

renameSync(src) == src

SaveOpenTmp ==
  /\ pc = "save"
  /\ state' = [state EXCEPT !.updatedAt = now]
  /\ tmp' = Truncated
  /\ pc' = "save_write"
  /\ UNCHANGED <<now, ticks, file, frozen, upstream, found, cfg, pIdx, remaining,
                 totalNotified, asins, ci, j, picked, p, histVars, diffVars>>

SaveWriteTmp ==
  /\ pc = "save_write"
  /\ tmp' = Content(state)
  /\ pc' = "save_rename"
  /\ UNCHANGED <<now, ticks, file, frozen, upstream, found, cfg, state, pIdx, remaining,
                 totalNotified, asins, ci, j, picked, p, histVars, diffVars>>

SaveRename ==
  /\ pc = "save_rename"
  /\ file' = renameSync(tmp)
  /\ tmp' = NoFile
  /\ pc' = "exit"
  /\ lastSent' = [a \in DOMAIN lastSent |->
                    IF lastSent[a].run = runNo THEN [lastSent[a] EXCEPT !.saved = TRUE]
                    ELSE lastSent[a]]
  /\ UNCHANGED <<now, ticks, frozen, upstream, found, cfg, state, pIdx, remaining,
                 totalNotified, asins, ci, j, picked, p, runNo, accepted, supp, ended, diffVars>>

\* where an error of mkdirSync, writeFileSync or renameSync goes: the catch of
\* saveState logs it and saveState returns ("exit": main goes on to its last
\* line); uncaught, it would leave main ("fatal")
onSaveError_rethrow == "fatal"

onSaveError == "exit"

SaveFail ==
  /\ pc \in {"save", "save_write", "save_rename"}
  /\ IF onSaveError = "exit"
     THEN /\ pc' = "exit"
          /\ UNCHANGED <<envVars, state, pIdx, remaining, totalNotified, asins, ci, j, picked,
                         p, histVars, diffVars>>
     ELSE /\ ProcGone("fatal")
          /\ UNCHANGED <<now, ticks, file, tmp, frozen, cfg, runNo, accepted, supp, lastSent, diffVars>>

\* main returns (580-581): nothing sets process.exitCode, the status is 0
\* ("done"); main().catch (583-586) sets it to 1 ("fatal")
onMainReturn_failure == "fatal"

onMainReturn == "done"

Exit ==
  /\ pc = "exit"
  /\ ProcGone(onMainReturn)
  /\ UNCHANGED <<now, ticks, file, tmp, frozen, cfg, runNo, accepted, supp, lastSent, diffVars>>

\* the process is killed (a signal, a power cut) wherever it is
Crash ==
  /\ pc # "idle"
  /\ ProcGone("killed")
  /\ UNCHANGED <<now, ticks, file, tmp, frozen, cfg, runNo, accepted, supp, lastSent, diffVars>>

Next ==
  \/ TickRun
  \/ TickIdle
  \/ StartRun
  \/ LoadState
  \/ CleanupState
  \/ ProfilesDone
  \/ FetchAsins
  \/ FetchAsinsFail
  \/ ChunksDone
  \/ FetchDetailsFail
  \/ FetchDetails
  \/ EvalProduct
  \/ PostToSlack
  \/ SaveOpenTmp
  \/ SaveWriteTmp
  \/ SaveRename
  \/ SaveFail
  \/ Exit
  \/ Crash

Spec == Init /\ [][Next]_vars

(***************************************************************************)
(* The diff and cooldown functions alone: the inputs are drawn in the      *)
(* initial state, Evaluate applies every function to them.                 *)
(*   metric inputs: per metric a previous value absent or present, and a   *)
(*   current value absent, equal, one unit inside the threshold, at the    *)
(*   threshold (above and below);                                          *)
(*   cooldown inputs: lastNotifiedAt unset, 0 or T, the clock at T, one    *)
(*   second inside the window, at the window and one second past it.       *)
(***************************************************************************)
DiffBase == [price |-> 3000, sellers |-> 5, rank |-> 6000, sold30 |-> 10]
T0 == 2 * cooldownSec

PrevValues(m) == {NULL, DiffBase[m]}
CurValues(m) ==
  {NULL, DiffBase[m], DiffBase[m] + Threshold(m) - 1, DiffBase[m] + Threshold(m),
   DiffBase[m] - Threshold(m)}

Entry(pr, se, ra, so, seen, notified) ==
  [price |-> pr, sellers |-> se, rank |-> ra, sold30 |-> so,
   lastSeenAt |-> seen, lastNotifiedAt |-> notified]

MetricInputs ==
  { <<prev, cur, T0>> :
      prev \in {NoPrev} \cup
               { Entry(pr, se, ra, so, T0, NULL) :
                   pr \in PrevValues("price"), se \in PrevValues("sellers"),
                   ra \in PrevValues("rank"), so \in PrevValues("sold30") },
      cur \in [price : CurValues("price"), sellers : CurValues("sellers"),
               rank : CurValues("rank"), sold30 : CurValues("sold30")] }

CooldownInputs ==
  { <<prev, cur, t>> :
      prev \in {NoPrev} \cup
               { Entry(DiffBase.price, DiffBase.sellers, DiffBase.rank, DiffBase.sold30, T0, n) :
                   n \in {NULL, 0, T0} },
      cur \in {DiffBase, [DiffBase EXCEPT !.price = DiffBase.price + PRICE_DELTA_YEN]},
      t \in {T0, T0 + cooldownSec - 1, T0 + cooldownSec, T0 + cooldownSec + 1} }

\* a snapshot with a price change above and one below the price threshold
ScenarioPrev == Entry(1000, 5, 500, 10, T0, NULL)

ScenarioInputs ==
  { <<ScenarioPrev, [price |-> pr, sellers |-> 5, rank |-> 500, sold30 |-> 10], T0>> :
      pr \in {1000 + PRICE_DELTA_YEN + 50, 1000 + PRICE_DELTA_YEN - 50,
              1000 - PRICE_DELTA_YEN - 50} }

DiffInputs == MetricInputs \cup CooldownInputs \cup ScenarioInputs

\* the same snapshot and clock on the millisecond clock of inCooldown
ToMs(prev) ==
  IF prev = NoPrev \/ prev.lastNotifiedAt = NULL THEN prev
  ELSE [prev EXCEPT !.lastNotifiedAt = prev.lastNotifiedAt * 1000]

InitDiff ==
  /\ InitRun
  /\ file = NoFile
  /\ runNo = 0
  /\ cfg = [MAX_NOTIFY |-> MAX_NOTIFY_DEFAULT, PROFILE_LIMIT |-> PROFILE_LIMIT_DEFAULT,
            ONLY_PROFILE |-> "", KEEPA_API_KEY |-> TRUE, SLACK_WEBHOOK_URL |-> TRUE]
  /\ frozen = FALSE
  /\ \E in \in DiffInputs :
       /\ dPrev = in[1]
       /\ dCur = in[2]
       /\ dNow = in[3]
  /\ dRes = [done |-> FALSE]

Evaluate ==
  /\ ~dRes.done
  /\ dRes' = [done |-> TRUE,
              notify |-> shouldNotifyByDiff(dPrev, dCur),
              build |-> buildDiff(dPrev, dCur),
              item |-> diffItem(dPrev, dCur),
              cool |-> isInCooldown(dPrev, dNow),
              coolMs |-> inCooldown(ToMs(dPrev), dNow * 1000)]
  /\ UNCHANGED <<envVars, procVars, histVars, dPrev, dCur, dNow>>

NextDiff == Evaluate

SpecDiff == InitDiff /\ [][NextDiff]_vars

(***************************************************************************)
(* Two runs in immediate succession against an upstream that answers every *)
(* call and returns the same lists and the same products in both runs.     *)
(***************************************************************************)
InitIdem ==
  /\ InitRun
  /\ file = NoFile
  /\ runNo = 0
  /\ cfg \in {c \in Configs : c.PROFILE_LIMIT = PROFILE_LIMIT_DEFAULT /\ c.ONLY_PROFILE = "games"}
  /\ frozen = TRUE
  /\ DiffIdle

NextIdem ==
  \/ TickRun
  \/ StartRun
  \/ LoadState
  \/ CleanupState
  \/ ProfilesDone
  \/ FetchAsins
  \/ ChunksDone
  \/ FetchDetails
  \/ EvalProduct
  \/ PostToSlack
  \/ SaveOpenTmp
  \/ SaveWriteTmp
  \/ SaveRename
  \/ SaveFail
  \/ Exit
  \/ Crash

SpecIdem == InitIdem /\ [][NextIdem]_vars

(***************************************************************************)
(* One run that finds any of InitialFiles at the state path.               *)
(***************************************************************************)
InitLoad ==
  /\ InitRun
  /\ file \in InitialFiles
  /\ runNo = MaxRuns - 1
  /\ cfg = [MAX_NOTIFY |-> MAX_NOTIFY_DEFAULT, PROFILE_LIMIT |-> PROFILE_LIMIT_DEFAULT,
            ONLY_PROFILE |-> "games", KEEPA_API_KEY |-> TRUE, SLACK_WEBHOOK_URL |-> TRUE]
  /\ frozen = FALSE
  /\ DiffIdle

SpecLoad == InitLoad /\ [][Next]_vars


(***************************************************************************)
(* One run over all the profiles, with every budget configuration, that    *)
(* finds no state file or the one an earlier run has saved.  What the      *)
(* finder returns for each profile and what the detail call returns for    *)
(* each identifier is drawn in the initial state.                          *)
(***************************************************************************)
InitAll ==
  /\ now = 2 * ttlSec
  /\ ticks = 0
  /\ tmp = NoFile
  /\ file \in {f \in InitialFiles : f.kind \in {"absent", "state"}}
  /\ runNo = MaxRuns - 1
  /\ cfg \in {c \in Configs : c.ONLY_PROFILE = ""}
  /\ frozen = TRUE
  /\ found \in [ProfileKeys -> {<<>>, <<"A1", "A1">>, <<"A1", "A2">>}]
  /\ \E u \in [Asins -> {BaseRaw, [BaseRaw EXCEPT !.offers = MIN_SELLERS - 1,
                                                    !.new = MIN_PRICE_YEN + PRICE_DELTA_YEN]}] :
       upstream = [a \in AllAsins |-> IF a \in Asins THEN u[a] ELSE NoRaw]
  /\ ProcIdle
  /\ accepted = {}
  /\ supp = EmptyMap
  /\ ended = "never"
  /\ lastSent = EmptyMap
  /\ DiffIdle

SpecAll == InitAll /\ [][Next]_vars

(***************************************************************************)
(* One run whose first profile has a finder result of two detail batches.  *)
(* The fillers are products the seller filter drops; A1 and A2, the first  *)
(* item of the first batch and the only item of the second, are either     *)
(* admitted or dropped.                                                    *)
(***************************************************************************)
FilteredRaw ==
  [BaseRaw EXCEPT !.offers = MIN_SELLERS - 1, !.new = MIN_PRICE_YEN + PRICE_DELTA_YEN]

InitBatch ==
  /\ now = 2 * ttlSec
  /\ ticks = 0
  /\ tmp = NoFile
  /\ file = NoFile
  /\ runNo = MaxRuns - 1
  /\ cfg \in {c \in Configs : c.ONLY_PROFILE = ""}
  /\ frozen = TRUE
  /\ \E second \in {<<>>, <<"A2">>} :
       found = [k \in ProfileKeys |-> IF k = PROFILES[1].key THEN LongList
                                      ELSE IF k = PROFILES[2].key THEN second
                                      ELSE <<>>]
  /\ \E u \in [Asins -> {BaseRaw, FilteredRaw}] :
       upstream = [a \in AllAsins |-> IF a \in Asins THEN u[a] ELSE FilteredRaw]
  /\ ProcIdle
  /\ accepted = {}
  /\ supp = EmptyMap
  /\ ended = "never"
  /\ lastSent = EmptyMap
  /\ DiffIdle

SpecBatch == InitBatch /\ [][Next]_vars

(***************************************************************************)
(* postToSlack checked alone: any number of items, any SLACK_BATCH value,   *)
(* any outcome of the webhook calls.                                       *)
(***************************************************************************)
InitSlack ==
  /\ InitRun
  /\ file = NoFile
  /\ runNo = 0
  /\ cfg = [MAX_NOTIFY |-> MAX_NOTIFY_DEFAULT, PROFILE_LIMIT |-> PROFILE_LIMIT_DEFAULT,
            ONLY_PROFILE |-> "", KEEPA_API_KEY |-> TRUE, SLACK_WEBHOOK_URL |-> TRUE]
  /\ frozen = FALSE
  /\ \E n \in 0..MaxItems :
       /\ dPrev = [i \in 1..n |-> i]
       /\ \E env \in BatchEnvValues, gOk \in SUBSET (1..n), iOk \in SUBSET (1..n) :
            dCur = [env |-> env, gOk |-> gOk, iOk |-> iOk]
  /\ dNow = 0
  /\ dRes = [done |-> FALSE]

Dispatch ==
  /\ ~dRes.done
  /\ LET r == postToSlack(dPrev, SLACK_BATCH(dCur.env), dCur.gOk, dCur.iOk)
     IN dRes' = [done |-> TRUE, size |-> SLACK_BATCH(dCur.env), calls |-> r.calls,
                 sent |-> r.sent]
  /\ UNCHANGED <<envVars, procVars, histVars, dPrev, dCur, dNow>>

NextSlack == Dispatch

SpecSlack == InitSlack /\ [][NextSlack]_vars

(***************************************************************************)
(* withRetry (216-241) alone.  Each call of the wrapped function succeeds  *)
(* or fails; a failure carries the refillIn value extractRefillInMs reads  *)
(* from its message (NULL: none, the error is not a rate limit).  dCur is  *)
(* the maxRetries option; dRes holds the attempt counter, the outcomes of  *)
(* the calls made so far, the waits slept and, at the end, the result.     *)
(***************************************************************************)
MaxRetry == 6

RefillValues == {NULL, 0, 59500, 60000}

CallOutcomes ==
  {[ok |-> TRUE, refillIn |-> NULL]} \cup {[ok |-> FALSE, refillIn |-> r] : r \in RefillValues}

\* the waits without their caps
waitMs_uncapped(refillIn, attempt) ==
  IF refillIn # NULL THEN refillIn + 500 ELSE 500 * 2 ^ (attempt - 1)

\* Math.min(refillIn + 500, 60_000) (228); Math.min(500 * 2^(attempt-1), 10_000) (235)
waitMs(refillIn, attempt) ==
  IF refillIn # NULL THEN Min(refillIn + 500, 60000) ELSE Min(500 * 2 ^ (attempt - 1), 10000)

giveUp_ge(attempt, maxRetries) == attempt >= maxRetries

\* if (attempt > maxRetries) throw err; (230, 237)
giveUp(attempt, maxRetries) == attempt > maxRetries

RetryStart == [done |-> FALSE, attempt |-> 0, log |-> <<>>, waits |-> <<>>]

InitRetry ==
  /\ InitRun
  /\ file = NoFile
  /\ runNo = 0
  /\ cfg = [MAX_NOTIFY |-> MAX_NOTIFY_DEFAULT, PROFILE_LIMIT |-> PROFILE_LIMIT_DEFAULT,
            ONLY_PROFILE |-> "", KEEPA_API_KEY |-> TRUE, SLACK_WEBHOOK_URL |-> TRUE]
  /\ frozen = FALSE
  /\ dPrev = NoPrev
  /\ dCur \in [maxRetries : 0..MaxRetry]
  /\ dNow = 0
  /\ dRes = RetryStart

\* one iteration of the while loop: the call returns
RetryReturn ==
  /\ ~dRes.done
  /\ \E o \in {c \in CallOutcomes : c.ok} :
       dRes' = [done |-> TRUE, attempt |-> dRes.attempt, log |-> Append(dRes.log, o),
                waits |-> dRes.waits, result |-> [kind |-> "returned", value |-> o]]
  /\ UNCHANGED <<envVars, procVars, histVars, dPrev, dCur, dNow>>

\* one iteration of the while loop: the call throws
RetryCatch ==
  /\ ~dRes.done
  /\ \E o \in {c \in CallOutcomes : ~c.ok} :
       LET attempt == dRes.attempt + 1 IN
       dRes' = IF giveUp(attempt, dCur.maxRetries)
               THEN [done |-> TRUE, attempt |-> attempt, log |-> Append(dRes.log, o),
                     waits |-> dRes.waits, result |-> [kind |-> "thrown", value |-> o]]
               ELSE [done |-> FALSE, attempt |-> attempt, log |-> Append(dRes.log, o),
                     waits |-> Append(dRes.waits, waitMs(o.refillIn, attempt))]
  /\ UNCHANGED <<envVars, procVars, histVars, dPrev, dCur, dNow>>

NextRetry == RetryReturn \/ RetryCatch

\* the wrapped call and the sleep both come back: the loop goes on
SpecRetry == InitRetry /\ [][NextRetry]_vars /\ WF_vars(NextRetry)

(***************************************************************************)
(* One run with or without the two required environment variables.         *)
(***************************************************************************)
InitStart ==
  /\ InitRun
  /\ file \in {f \in InitialFiles : f.kind \in {"absent", "state"}}
  /\ runNo = MaxRuns - 1
  /\ cfg \in StartConfigs
  /\ frozen = FALSE
  /\ DiffIdle

NextStart == StartFail \/ Next

SpecStart == InitStart /\ [][NextStart]_vars

(***************************************************************************)
(* The periodic runner (src/index.js).  dRes holds its state:              *)
(*   children      the monitor processes spawned so far; of each, whether  *)
(*                 the process is still there (alive), and the exitCode    *)
(*                 and killed properties of its ChildProcess object:       *)
(*                 exitCode is null until the process has exited with a    *)
(*                 code, killed is set by kill() once the signal is sent   *)
(*   monitorChild  the index of the child the variable refers to           *)
(*   timers        pending setTimeout(() => process.exit(0), 500)          *)
(*   gone          the runner has exited                                   *)
(*   skipped       ticks that spawned nothing                              *)
(*   auto          AUTO_DISCOVERY is on                                    *)
(*   dchildren, discoverChild, dskipped    the same for the discover job   *)
(* Construction runs runOnceMonitor() once (75): one child is running;     *)
(* with AUTO_DISCOVERY on it runs runOnceDiscover() once as well (78-81).  *)
(***************************************************************************)
MaxSpawn == 3
MaxDiscover == 2

NewChild == [alive |-> TRUE, exitCode |-> NULL, killed |-> FALSE]

\* !!child && child.exitCode === null && child.killed === false (41-43)
isRunning(children, c) == c # 0 /\ children[c].exitCode = NULL /\ ~children[c].killed

InitRunner ==
  /\ InitRun
  /\ file = NoFile
  /\ runNo = 0
  /\ cfg = [MAX_NOTIFY |-> MAX_NOTIFY_DEFAULT, PROFILE_LIMIT |-> PROFILE_LIMIT_DEFAULT,
            ONLY_PROFILE |-> "", KEEPA_API_KEY |-> TRUE, SLACK_WEBHOOK_URL |-> TRUE]
  /\ frozen = FALSE
  /\ dPrev = NoPrev
  /\ dCur = DiffBase
  /\ dNow = 0
  /\ \E auto \in BOOLEAN :
       dRes = [children |-> <<NewChild>>, monitorChild |-> 1, timers |-> 0, gone |-> FALSE,
               skipped |-> 0, auto |-> auto,
               dchildren |-> IF auto THEN <<NewChild>> ELSE <<>>,
               discoverChild |-> IF auto THEN 1 ELSE 0, dskipped |-> 0]

RunnerKeeps == UNCHANGED <<envVars, procVars, histVars, dPrev, dCur, dNow>>

\* the setInterval callback (86-89): runOnceMonitor (48-58)
RunnerTick ==
  /\ ~dRes.gone
  /\ IF isRunning(dRes.children, dRes.monitorChild)
     THEN /\ dRes.skipped < MaxSpawn
          /\ dRes' = [dRes EXCEPT !.skipped = @ + 1]
     ELSE /\ Len(dRes.children) < MaxSpawn
          /\ dRes' = [dRes EXCEPT !.children = Append(@, NewChild),
                                  !.monitorChild = Len(dRes.children) + 1]
  /\ RunnerKeeps

\* the second setInterval callback (91-96): runOnceDiscover (60-70)
DiscoverTick ==
  /\ ~dRes.gone
  /\ dRes.auto
  /\ IF isRunning(dRes.dchildren, dRes.discoverChild)
     THEN /\ dRes.dskipped < MaxDiscover
          /\ dRes' = [dRes EXCEPT !.dskipped = @ + 1]
     ELSE /\ Len(dRes.dchildren) < MaxDiscover
          /\ dRes' = [dRes EXCEPT !.dchildren = Append(@, NewChild),
                                  !.discoverChild = Len(dRes.dchildren) + 1]
  /\ RunnerKeeps

\* a child process ends by itself, with status 0 or 1
ChildExit ==
  /\ \/ \E c \in 1..Len(dRes.children), code \in {0, 1} :
          /\ dRes.children[c].alive
          /\ dRes' = [dRes EXCEPT !.children[c].alive = FALSE, !.children[c].exitCode = code]
     \/ \E c \in 1..Len(dRes.dchildren), code \in {0, 1} :
          /\ dRes.dchildren[c].alive
          /\ dRes' = [dRes EXCEPT !.dchildren[c].alive = FALSE, !.dchildren[c].exitCode = code]
  /\ RunnerKeeps

\* a child process is ended by a signal: exitCode stays null (signalCode is set)
ChildSignalled ==
  /\ \/ \E c \in 1..Len(dRes.children) :
          /\ dRes.children[c].alive
          /\ dRes' = [dRes EXCEPT !.children[c].alive = FALSE]
     \/ \E c \in 1..Len(dRes.dchildren) :
          /\ dRes.dchildren[c].alive
          /\ dRes' = [dRes EXCEPT !.dchildren[c].alive = FALSE]
  /\ RunnerKeeps

\* SIGINT or SIGTERM arrives at the runner: shutdown (101-111)
Shutdown ==
  /\ ~dRes.gone
  /\ dRes.timers < MaxSpawn
  /\ dRes' = [dRes EXCEPT
               !.children = [c \in 1..Len(dRes.children) |->
                               IF c = dRes.monitorChild /\ isRunning(dRes.children, c)
                                  /\ dRes.children[c].alive
                               THEN [dRes.children[c] EXCEPT !.killed = TRUE]
                               ELSE dRes.children[c]],
               !.dchildren = [c \in 1..Len(dRes.dchildren) |->
                                IF c = dRes.discoverChild /\ isRunning(dRes.dchildren, c)
                                   /\ dRes.dchildren[c].alive
                                THEN [dRes.dchildren[c] EXCEPT !.killed = TRUE]
                                ELSE dRes.dchildren[c]],
               !.timers = @ + 1]
  /\ RunnerKeeps

\* the timer of shutdown fires: process.exit(0) (110)
RunnerExit ==
  /\ ~dRes.gone
  /\ dRes.timers > 0
  /\ dRes' = [dRes EXCEPT !.gone = TRUE]
  /\ RunnerKeeps

NextRunner ==
  RunnerTick \/ DiscoverTick \/ ChildExit \/ ChildSignalled \/ Shutdown \/ RunnerExit

SpecRunner == InitRunner /\ [][NextRunner]_vars

(***************************************************************************)
(* fetchAsinsForProfile alone: dPrev is the finder's answers page by page, *)
(* dCur the settings FINDER_MAX_PAGES and FINDER_PER_PAGE.                 *)
(***************************************************************************)
PageAnswers(perPage) ==
  UNION {[1..n -> Asins] : n \in 0..perPage}

InitFinder ==
  /\ InitRun
  /\ file = NoFile
  /\ runNo = 0
  /\ cfg = [MAX_NOTIFY |-> MAX_NOTIFY_DEFAULT, PROFILE_LIMIT |-> PROFILE_LIMIT_DEFAULT,
            ONLY_PROFILE |-> "", KEEPA_API_KEY |-> TRUE, SLACK_WEBHOOK_URL |-> TRUE]
  /\ frozen = FALSE
  /\ dCur \in [maxPages : 0..MaxPages, perPage : {1, 2}]
  /\ dPrev \in [1..(MaxPages + 1) -> PageAnswers(dCur.perPage)]
  /\ dNow = 0
  /\ dRes = [done |-> FALSE]

Find ==
  /\ ~dRes.done
  /\ LET r == fetchAsinsForProfile(dPrev, dCur.maxPages, dCur.perPage)
     IN dRes' = [done |-> TRUE, asins |-> r.asins, requests |-> r.requests]
  /\ UNCHANGED <<envVars, procVars, histVars, dPrev, dCur, dNow>>

NextFinder == Find

SpecFinder == InitFinder /\ [][NextFinder]_vars

(***************************************************************************)
(* One iteration of the product loop alone (452-519): dCur is the product  *)
(* of the detail call and the profile, dPrev the stored entry, dNow the    *)
(* clock; dRes is what the iteration did and the entry it wrote.  The raw  *)
(* prices are missing (NULL, also Keepa's -1), 0, or positive.             *)
(***************************************************************************)
FilterRaws ==
  [hasAsin : BOOLEAN, digital : BOOLEAN,
   amazon : {NULL, 0, MIN_PRICE_YEN + 500},
   new : {NULL, 0, MIN_PRICE_YEN - 1, MIN_PRICE_YEN},
   rank : {500}, offers : {NULL, MIN_SELLERS - 1, MIN_SELLERS},
   drops30 : {10}, drops90 : {NULL}, drops180 : {NULL}]

FilterPrevs ==
  {NoPrev} \cup
  { Entry(MIN_PRICE_YEN + PRICE_DELTA_YEN, MIN_SELLERS, 500, 10, T0, n) : n \in {NULL, T0} }

InitFilter ==
  /\ InitRun
  /\ file = NoFile
  /\ runNo = 0
  /\ cfg = [MAX_NOTIFY |-> MAX_NOTIFY_DEFAULT, PROFILE_LIMIT |-> PROFILE_LIMIT_DEFAULT,
            ONLY_PROFILE |-> "", KEEPA_API_KEY |-> TRUE, SLACK_WEBHOOK_URL |-> TRUE]
  /\ frozen = FALSE
  /\ dPrev \in FilterPrevs
  /\ dCur \in [raw : FilterRaws, profile : {PROFILES[1], PROFILES[2]}]
  /\ dNow \in {T0 + 1, T0 + cooldownSec}
  /\ dRes = [done |-> FALSE]

Iterate ==
  /\ ~dRes.done
  /\ LET outcome == Outcome(dCur.profile, dCur.raw, dPrev, dNow)
     IN dRes' = [done |-> TRUE, outcome |-> outcome,
                 entry |-> IF outcome \in Written
                           THEN NewEntry(outcome, dPrev, curOf(dCur.raw), dNow)
                           ELSE NoPrev]
  /\ UNCHANGED <<envVars, procVars, histVars, dPrev, dCur, dNow>>

NextFilter == Iterate

SpecFilter == InitFilter /\ [][NextFilter]_vars

(***************************************************************************)
(* Properties of the diff and cooldown functions (under SpecDiff).         *)
(***************************************************************************)
BothPresent(m) == dPrev # NoPrev /\ dPrev[m] # NULL /\ dCur[m] # NULL
OthersEqual(m) == \A o \in Metrics \ {m} : dPrev[o] = dCur[o]
AtOrOver(m) == Abs(dCur[m] - dPrev[m]) >= Threshold(m)

\* C1: for each metric, when the previous and the current value are both
\* present and the other three metrics are equal, the diff evaluator reports
\* significant exactly when |curr - prev| >= the metric's threshold
\* (shouldNotifyByDiff, and buildDiff and diffItem of the other revisions).
C1_ThresholdBoundary ==
  dRes.done =>
    \A m \in Metrics :
      (BothPresent(m) /\ OthersEqual(m)) =>
        /\ dRes.notify.ok <=> AtOrOver(m)
        /\ dRes.build.changed <=> AtOrOver(m)
        /\ dRes.item.changed <=> AtOrOver(m)

\* a delta equal to the threshold was evaluated and found significant
C1_Witness ==
  /\ dRes.done
  /\ BothPresent("rank") /\ OthersEqual("rank")
  /\ dPrev.price # NULL
  /\ dCur.rank - dPrev.rank = RANK_DELTA_ABS
  /\ dRes.notify.ok

\* C2: with no previous snapshot the diff evaluator returns significant with
\* the single reason "new", whatever the current snapshot is.
C2_NewItem ==
  (dRes.done /\ dPrev = NoPrev) =>
    /\ dRes.notify = [ok |-> TRUE, reasons |-> <<NewReason>>]
    /\ dRes.build = [changed |-> TRUE, label |-> <<NewReason>>]
    /\ dRes.item.changed /\ dRes.item.reasons = <<NewReason>>

\* a first-seen snapshot without a price was evaluated
C2_Witness ==
  /\ dRes.done
  /\ dPrev = NoPrev
  /\ dCur.price = NULL
  /\ dRes.notify.reasons = <<NewReason>>

\* C3 (as stated): with a previous snapshot and exactly one of prev.price
\* and curr.price present, the diff evaluator reports significant.
\* shouldNotifyByDiff does not: absDelta is null when either price is null,
\* and no reason is pushed.
PricePresenceChange ==
  /\ dPrev # NoPrev
  /\ (dPrev.price = NULL) # (dCur.price = NULL)

C3_PresenceChangeSignificant ==
  (dRes.done /\ PricePresenceChange) => dRes.notify.ok

\* C5: isInCooldown is true iff prev exists, its lastNotifiedAt is set and
\* non-zero, and now - lastNotifiedAt is strictly below the cooldown window
\* (isInCooldown on seconds, inCooldown on milliseconds).
InWindow ==
  /\ dPrev # NoPrev
  /\ dPrev.lastNotifiedAt # NULL
  /\ dPrev.lastNotifiedAt # 0
  /\ dNow - dPrev.lastNotifiedAt < NOTIFY_COOLDOWN_HOURS * 3600

C5_CooldownIff ==
  dRes.done =>
    /\ dRes.cool <=> InWindow
    /\ dRes.coolMs <=> InWindow

\* at exactly the window length the item is out of cooldown
C5_Witness ==
  /\ dRes.done
  /\ dPrev # NoPrev
  /\ dPrev.lastNotifiedAt = T0
  /\ dNow - dPrev.lastNotifiedAt = NOTIFY_COOLDOWN_HOURS * 3600
  /\ ~dRes.cool

(***************************************************************************)
(* Properties of the runs.                                                 *)
(***************************************************************************)
BeforeRename ==
  pc \in {"load", "cleanup", "profile", "chunk", "item", "post", "save", "save_write",
          "save_rename"}

\* the step is one iteration of the product loop
Evaluated == pc = "item" /\ p'.outcome # "none"

NoEffect == state' = state /\ picked' = picked /\ accepted' = accepted

\* C4: an admitted item with a significant diff inside the cooldown window
\* is not accepted or queued for sending in that run, its stored price,
\* sellers, rank and sold30 are curr's, and its lastNotifiedAt is unchanged
\* (Spec: one profile, so an identifier is evaluated once per run).
C4_CooldownSuppression ==
  pc # "idle" =>
    \A a \in DOMAIN supp :
      /\ a \notin accepted
      /\ \A i \in 1..Len(picked) : picked[i].asin # a
      /\ a \in DOMAIN state.asins
      /\ pickStateFields(state.asins[a]) = supp[a].cur
      /\ state.asins[a].lastNotifiedAt = supp[a].lastNotifiedAt

\* a suppressed price change was saved: the file holds the new price and
\* the old lastNotifiedAt
C4_Witness ==
  /\ pc = "exit"
  /\ \E a \in DOMAIN supp :
       /\ a \in DOMAIN file.asins
       /\ file.asins[a].price = supp[a].cur.price
       /\ file.asins[a].price = MIN_PRICE_YEN + PRICE_DELTA_YEN
       /\ file.asins[a].lastNotifiedAt = supp[a].lastNotifiedAt
       /\ file.asins[a].lastSeenAt > file.asins[a].lastNotifiedAt

LowSellers(cur) == cur.sellers = NULL \/ cur.sellers < 3

SellersOk(m) == \A a \in DOMAIN m : m[a].sellers # NULL /\ m[a].sellers >= 3

\* C7: an observation with a seller count null or below 3 is not accepted
\* and writes nothing, and from an empty store every entry of the store (in
\* memory, in the file, in the temp file) has a seller count of at least 3.
C7_SellerFilter ==
  /\ [](SellersOk(state.asins) /\ SellersOk(file.asins) /\ SellersOk(tmp.asins))
  /\ [][(Evaluated /\ LowSellers(curOf(p'.raw))) => NoEffect]_vars

\* two sellers, a price over the floor that changed: rejected, the entry of
\* an earlier run is still there
C7_Witness ==
  /\ p.outcome = "sellers"
  /\ p.raw.offers = 2
  /\ p.raw.new >= MIN_PRICE_YEN
  /\ p.prev # NoPrev
  /\ state.asins[p.asin] = p.prev

LowPrice(cur) == cur.price = NULL \/ cur.price < MIN_PRICE_YEN

\* C8: an observation with a derived price null or below the floor is not
\* accepted and writes nothing: no entry is created, an existing entry
\* keeps every field.
C8_PriceFloorNoWrite ==
  [][(Evaluated /\ LowPrice(curOf(p'.raw))) => NoEffect]_vars

\* a price below the floor with enough sellers, for an identifier that has
\* an entry: the entry is the one found
C8_Witness ==
  /\ p.outcome = "minprice"
  /\ p.raw.new = MIN_PRICE_YEN - 1
  /\ p.prev # NoPrev
  /\ state.asins[p.asin] = p.prev
  /\ p.prev.price # curOf(p.raw).price

\* C9: the primary state file is absent or a complete saved state at every
\* instant; it changes only by the rename, to the state being saved; no
\* other step (a crash, a failed save) touches it.
C9_AtomicSave ==
  /\ [](file.kind \in {"absent", "state"})
  /\ [][file' # file => (pc = "save_rename" /\ pc' = "exit" /\ file' = Content(state))]_vars

\* killed between the write of the temp file and the rename, in a run that
\* found a saved state: the saved state is still the primary file
C9_Witness ==
  /\ pc = "idle"
  /\ ended = "killed"
  /\ tmp.kind = "state"
  /\ file.kind = "state"
  /\ tmp # file

\* C10: loadState returns to main whatever the file is, and for a file that
\* is absent, unreadable, not JSON, not an object or without the mapping the
\* state it returns has an empty mapping.
C10_LoadNeverThrows ==
  [][(pc = "load" /\ pc' # "load") =>
       \/ ended' = "killed"
       \/ /\ pc' = "cleanup"
          /\ file.kind # "state" => state'.asins = EmptyMap]_vars

\* a run that found a file that is not JSON went on and accepted an item
C10_Witness ==
  /\ file.kind = "invalid"
  /\ pc = "save"
  /\ accepted # {}
  /\ DOMAIN state.asins = accepted

SavePcs == {"save", "save_write", "save_rename"}

\* C11: an error during save does not abort the run: the step that leaves
\* saveState goes on to main's last line with the sent count intact, and
\* from there the process ends normally (exit status 0).
C11_SaveErrorNotFatal ==
  /\ [][(pc \in SavePcs /\ pc' \notin SavePcs) =>
          \/ ended' = "killed"
          \/ pc' = "exit" /\ totalNotified' = totalNotified /\ accepted' = accepted]_vars
  /\ [][(pc = "exit" /\ pc' # "exit") => ended' \in {"done", "killed"}]_vars

\* the first run sent a notification, its save failed (no state file), and
\* it is at main's last line
C11_Witness ==
  /\ runNo = 1
  /\ pc = "exit"
  /\ file.kind = "absent"
  /\ totalNotified > 0

(***************************************************************************)
(* cleanupState alone: dPrev is the mapping of a loaded state, with        *)
(* entries last seen around the cutoff, dNow the clock; Prune applies      *)
(* cleanupState.                                                           *)
(***************************************************************************)
PruneT == 2 * ttlSec

SeenValues == {PruneT - ttlSec - 1, PruneT - ttlSec, PruneT - ttlSec + 1, PruneT - ttlSec + 2}

PruneStores ==
  UNION { [S -> { Entry(MIN_PRICE_YEN, MIN_SELLERS, 500, 10, seen, seen) : seen \in SeenValues }] :
            S \in SUBSET Asins }

InitPrune ==
  /\ InitRun
  /\ file = NoFile
  /\ runNo = 0
  /\ cfg = [MAX_NOTIFY |-> MAX_NOTIFY_DEFAULT, PROFILE_LIMIT |-> PROFILE_LIMIT_DEFAULT,
            ONLY_PROFILE |-> "", KEEPA_API_KEY |-> TRUE, SLACK_WEBHOOK_URL |-> TRUE]
  /\ frozen = FALSE
  /\ dPrev \in PruneStores
  /\ dCur = DiffBase
  /\ dNow \in {PruneT - 1, PruneT, PruneT + 1, PruneT + 2}
  /\ dRes = [done |-> FALSE]

Prune ==
  /\ ~dRes.done
  /\ dRes' = [done |-> TRUE,
              asins |-> cleanupState([updatedAt |-> 0, asins |-> dPrev], dNow).asins,
              removed |-> cleanupRemoved([updatedAt |-> 0, asins |-> dPrev], dNow)]
  /\ UNCHANGED <<envVars, procVars, histVars, dPrev, dCur, dNow>>

NextPrune == Prune

SpecPrune == InitPrune /\ [][NextPrune]_vars

\* C12: cleanupState removes exactly the entries last seen strictly before
\* now - ttl, keeps the others with every field unchanged, and returns the
\* number of entries it removed.
C12_PruneExact ==
  dRes.done =>
    /\ \A a \in DOMAIN dPrev :
         IF dPrev[a].lastSeenAt < dNow - STATE_TTL_DAYS * 86400
         THEN a \notin DOMAIN dRes.asins
         ELSE a \in DOMAIN dRes.asins /\ dRes.asins[a] = dPrev[a]
    /\ DOMAIN dRes.asins \subseteq DOMAIN dPrev
    /\ dRes.removed = Cardinality(DOMAIN dPrev) - Cardinality(DOMAIN dRes.asins)

\* one entry one second older than the cutoff was removed, one exactly at
\* the cutoff was kept
C12_Witness ==
  /\ dRes.done
  /\ dRes.removed = 1
  /\ \E a \in DOMAIN dPrev : dPrev[a].lastSeenAt = dNow - STATE_TTL_DAYS * 86400 - 1
  /\ \E a \in DOMAIN dRes.asins : dPrev[a].lastSeenAt = dNow - STATE_TTL_DAYS * 86400

(***************************************************************************)
(* Properties of main's loop over the profiles (under SpecAll).            *)
(***************************************************************************)
NumSelected ==
  IF cfg.ONLY_PROFILE \in ProfileKeys THEN 1 ELSE Cardinality(ProfileKeys)

ScanPcs == {"profile", "chunk", "item", "post"}

C14_PruneAfterProfiles ==
  /\ pc = "cleanup" => (pIdx > NumSelected \/ (pIdx >= 1 /\ remaining <= 0))
  /\ (BeforeRename /\ p.outcome \in Written /\ p.asin \in DOMAIN file.asins)
       => p.prev # NoPrev

\* C15 (as stated): in one profile scan the number of accepted items never
\* exceeds min(PROFILE_LIMIT, remaining budget at the start of the scan),
\* later detail batches included.  (remaining does not change during a scan.)
\* The break at line 518 leaves the loop over one batch only, and the check
\* before the next batch (437) looks at the remaining budget alone.
C15_AcceptedWithinLimits ==
  pc \in ScanPcs => Len(picked) <= Min(cfg.PROFILE_LIMIT, remaining)

\* C16 (as stated): when the evaluation of an item reaches the notify limit
\* before the end of its detail batch, every admitted item that follows it in
\* the batch has its stored metrics and lastSeenAt updated.
\* The break at line 518 ends the loop over the batch: the items after the
\* accepted one are not looked at, so nothing is stored for them.
RestOfBatch == {Chunk(asins, ci)[k] : k \in (j + 1)..Len(Chunk(asins, ci))}

C16_RestOfBatchUpdated ==
  [][(pc = "item" /\ pc' = "chunk" /\ j < Len(Chunk(asins, ci))) =>
       \A a \in RestOfBatch :
         (upstream[a] # NoRaw /\ Admitted(Targets(cfg)[pIdx], upstream[a])) =>
           /\ a \in DOMAIN state'.asins
           /\ state'.asins[a].lastSeenAt = now
           /\ \A m \in Metrics : state'.asins[a][m] = curOf(upstream[a])[m]]_vars

\* C17: the notifications sent in a run never exceed MAX_NOTIFY: the
\* remaining budget and the total always add up to the cap and the budget is
\* never negative; the return of a profile scan takes exactly the number of
\* delivered items (at most the accepted ones) from the budget and adds it to
\* the total; a profile scan starts only with a positive budget.
C17_GlobalCap ==
  /\ [](pc \in (ScanPcs \cup SavePcs \cup {"exit"}) =>
          /\ remaining >= 0
          /\ totalNotified <= cfg.MAX_NOTIFY
          /\ remaining + totalNotified = cfg.MAX_NOTIFY)
  /\ [][(pc = "post" /\ pc' = "profile") =>
          \E sent \in 0..Len(picked) :
            /\ remaining' = remaining - sent
            /\ totalNotified' = totalNotified + sent]_vars
  /\ [][(pc = "profile" /\ (pc' = "chunk" \/ pIdx' > pIdx)) => remaining > 0]_vars

C17_Witness ==
  /\ pc = "exit"
  /\ cfg.PROFILE_LIMIT > cfg.MAX_NOTIFY
  /\ totalNotified = cfg.MAX_NOTIFY
  /\ remaining = 0
  /\ pIdx <= NumSelected

(***************************************************************************)
(* Properties of postToSlack (under SpecSlack).                            *)
(***************************************************************************)
RECURSIVE Concat(_)
Concat(ss) == IF Len(ss) = 0 THEN <<>> ELSE Head(ss) \o Concat(Tail(ss))

GroupCalls == SelectSeq(dRes.calls, LAMBDA c : c.kind = "group")

Delivered ==
  {i \in 1..Len(dPrev) :
     \E c \in 1..Len(dRes.calls) :
       /\ dRes.calls[c].ok
       /\ \E k \in 1..Len(dRes.calls[c].items) : dRes.calls[c].items[k] = i}

\* C18: the batch size is the environment value clamped to 1..3; the group
\* calls carry the items in order, each item in exactly one group of at most
\* that size; a failed group call is followed by one single call for each of
\* its items, whatever the outcome of the earlier ones, and single calls occur
\* nowhere else; the returned count is the number of delivered items.
C18_Dispatch ==
  dRes.done =>
    LET calls == dRes.calls IN
    /\ dRes.size \in 1..3
    /\ dCur.env \in 1..3 => dRes.size = dCur.env
    /\ \A g \in 1..Len(GroupCalls) : Len(GroupCalls[g].items) \in 1..dRes.size
    /\ Concat([g \in 1..Len(GroupCalls) |-> GroupCalls[g].items]) = dPrev
    /\ \A g \in 1..Len(GroupCalls) : GroupCalls[g].ok = (g \in dCur.gOk)
    /\ \A c \in 1..Len(calls) :
         (calls[c].kind = "group" /\ ~calls[c].ok) =>
           \A k \in 1..Len(calls[c].items) :
             /\ c + k <= Len(calls)
             /\ calls[c + k] = Call("single", <<calls[c].items[k]>>,
                                    calls[c].items[k] \in dCur.iOk)
    /\ \A c \in 1..Len(calls) :
         calls[c].kind = "single" =>
           \E g \in 1..(c - 1) :
             /\ calls[g].kind = "group" /\ ~calls[g].ok
             /\ c - g <= Len(calls[g].items)
             /\ calls[c].items = <<calls[g].items[c - g]>>
    /\ dRes.sent = Cardinality(Delivered)

C18_Witness ==
  /\ dRes.done
  /\ Len(dPrev) = 4
  /\ dRes.size = 2
  /\ dCur.gOk = {2}
  /\ dCur.iOk = {2}
  /\ dRes.sent = 3
  /\ Len(dRes.calls) = 4

\* C19 (as stated): a search-page request that fails after its retries ends
\* the scan of that profile only: from main's loop over the profiles the run
\* goes on to a detail batch, to the next profile or to the final save, unless
\* the process is killed.
\* The error of fetchAsinsForProfile is caught neither in processProfile nor
\* in main's loop: it ends main, main().catch reports it, nothing is saved.
C19_SearchFailureSkipsProfile ==
  [][(pc = "profile" /\ ended' # "killed") =>
       /\ pc' \in {"profile", "chunk", "save"}
       /\ ended' = "running"]_vars

\* C20: a detail batch whose request fails is skipped: the step writes
\* nothing to the state object or the files and accepts nothing, and leaves
\* the scan at the next batch of the same profile; from the loop over the
\* batches the run only goes on to a batch's items, to the next batch or to
\* the end of the profile scan, unless the process is killed.
C20_FailedBatchSkipped ==
  /\ [][(pc = "chunk" /\ pc' = "chunk" /\ ci' # ci) =>
          /\ ci' = ci + 1
          /\ asins' = asins /\ pIdx' = pIdx
          /\ state' = state /\ picked' = picked /\ accepted' = accepted
          /\ remaining' = remaining /\ totalNotified' = totalNotified
          /\ file' = file /\ tmp' = tmp]_vars
  /\ [][(pc = "chunk" /\ ended' # "killed") =>
          /\ pc' \in {"chunk", "item", "post"}
          /\ ended' = "running"]_vars

C20_Witness ==
  /\ pIdx = 2
  /\ pc = "item"
  /\ upstream["A1"] = BaseRaw
  /\ "A1" \notin DOMAIN state.asins
  /\ "A2" \in DOMAIN state.asins

(***************************************************************************)
(* Properties of withRetry (under SpecRetry).                              *)
(***************************************************************************)
AllFailed(log) == \A i \in 1..Len(log) : ~log[i].ok

\* C21: withRetry ends; it makes at most maxRetries + 1 calls; no call
\* follows a successful one, whose result is returned; after maxRetries + 1
\* failures in a row, whatever their kinds, the last failure is thrown, and
\* it is thrown in no other case.
C21_RetryBounded ==
  /\ [](/\ Len(dRes.log) <= dCur.maxRetries + 1
        /\ AllFailed(SubSeq(dRes.log, 1, Len(dRes.log) - 1))
        /\ ~dRes.done => (AllFailed(dRes.log) /\ Len(dRes.log) <= dCur.maxRetries)
        /\ dRes.done =>
             /\ dRes.result.value = dRes.log[Len(dRes.log)]
             /\ (dRes.result.kind = "returned") = dRes.log[Len(dRes.log)].ok
             /\ (dRes.result.kind = "thrown") =
                  (AllFailed(dRes.log) /\ Len(dRes.log) = dCur.maxRetries + 1))
  /\ [][dRes.done => dRes' = dRes]_vars
  /\ <>dRes.done

C21_Witness ==
  /\ dRes.done
  /\ dCur.maxRetries = 2
  /\ dRes.result.kind = "thrown"
  /\ Len(dRes.log) = 3
  /\ dRes.log[1].refillIn # NULL
  /\ dRes.log[2].refillIn = NULL

\* C22 (as stated): when the run is done with a detail batch, every product
\* of the batch that passes the admission filters has an entry in the state
\* object with the observed price, sellers, rank and sold30 and a lastSeenAt
\* of this run, accepted or not.
\* The entries are written for the products the loop reaches (cooldown, no
\* diff, accepted alike); the products after the one that reached the notify
\* limit are left out.
BatchDone == pc = "item" /\ pc' = "chunk"

C22_ObservedStored ==
  [][BatchDone =>
       \A k \in 1..Len(Chunk(asins, ci)) :
         LET a == Chunk(asins, ci)[k]
             raw == upstream'[a]
         IN (raw # NoRaw /\ Admitted(Targets(cfg)[pIdx], raw)) =>
              /\ a \in DOMAIN state'.asins
              /\ \A m \in Metrics : state'.asins[a][m] = curOf(raw)[m]
              /\ state'.asins[a].lastSeenAt \in (now - MaxTicks)..now]_vars

\* C23 (as stated): a notification delivered for an item comes at least the
\* cooldown window after the previous delivered notification for the same
\* item, when that one was delivered in the same run or in a run that saved
\* its state.
\* lastNotifiedAt is the time the item was accepted (514), before the scan
\* went on and the webhook was called: the window is measured from there.
C23_DeliveriesCooldownApart ==
  [][pc = "post" =>
       \A a \in DOMAIN lastSent' :
         (/\ a \in DOMAIN lastSent
          /\ lastSent'[a] # lastSent[a]
          /\ lastSent[a].saved \/ lastSent[a].run = runNo) =>
           lastSent'[a].at - lastSent[a].at >= cooldownSec]_vars

\* C24 (as stated): every entry of the store a run is about to save has a
\* firstSeenAt, equal to its lastSeenAt when the item was not in the state
\* file before the run and not later than its lastSeenAt otherwise.
\* The entries this program writes (496, 504, 511-516, pickStateFields) have
\* no firstSeenAt field at all.
firstSeenAtOf(e) == IF "firstSeenAt" \in DOMAIN e THEN e.firstSeenAt ELSE NULL

C24_FirstSeenKept ==
  (pc = "save_rename" /\ tmp = Content(state)) =>
    \A a \in DOMAIN tmp.asins :
      /\ firstSeenAtOf(tmp.asins[a]) # NULL
      /\ firstSeenAtOf(tmp.asins[a]) <= tmp.asins[a].lastSeenAt
      /\ a \notin DOMAIN file.asins =>
           firstSeenAtOf(tmp.asins[a]) = tmp.asins[a].lastSeenAt

\* C30 (as stated): in the state a run is about to save, the items delivered
\* in this run carry a lastNotifiedAt of this run, and every other item has
\* the lastNotifiedAt it had in the state file before the run, or none.
\* lastNotifiedAt is written when the item is accepted (514), before
\* postToSlack: an item whose sends all failed is stamped as well.
DeliveredNow(a) == a \in DOMAIN lastSent /\ lastSent[a].run = runNo

C30_StampedIffDelivered ==
  (pc = "save_rename" /\ tmp = Content(state)) =>
    \A a \in DOMAIN tmp.asins :
      IF DeliveredNow(a)
      THEN tmp.asins[a].lastNotifiedAt \in (now - MaxTicks)..now
      ELSE tmp.asins[a].lastNotifiedAt \in
             {NULL} \cup {file.asins[b].lastNotifiedAt : b \in {a} \cap DOMAIN file.asins}

\* C25: the process ends with status 0 ("done") exactly from the end of
\* main, whatever the run notified and whichever detail batches, sends or
\* saves failed; it ends with status 1 ("fatal") only from a step in which an
\* error leaves main, which is never a detail batch, a send or a save.
C25_ExitStatus ==
  /\ [][(pc = "exit" /\ pc' # "exit" /\ ended' # "killed") => ended' = "done"]_vars
  /\ [][(pc # "idle" /\ ended' = "done") => pc = "exit"]_vars
  /\ [][(pc # "idle" /\ ended' = "fatal") => pc \in {"load", "cleanup", "profile"}]_vars
  /\ [][(pc # "idle" /\ pc' = "idle") => ended' \in {"done", "fatal", "killed"}]_vars

C25_Witness ==
  /\ pc = "idle"
  /\ ended = "done"
  /\ accepted # {}
  /\ \A a \in accepted : ~DeliveredNow(a)
  /\ file.kind = "absent"

MissingEnv == ~cfg.KEEPA_API_KEY \/ ~cfg.SLACK_WEBHOOK_URL

\* C26: with KEEPA_API_KEY or SLACK_WEBHOOK_URL missing, a start of the
\* monitor ends at once with status 1: the process never gets to a request,
\* nothing is delivered and neither the state file nor its temp file changes.
C26_MissingEnvFatal ==
  /\ [](MissingEnv =>
          /\ pc = "idle"
          /\ lastSent = EmptyMap
          /\ accepted = {}
          /\ tmp = NoFile
          /\ ended \in {"never", "fatal"})
  /\ [][MissingEnv => (file' = file /\ tmp' = tmp)]_vars
  /\ [][(MissingEnv /\ runNo' # runNo) => ended' = "fatal"]_vars

C26_Witness ==
  /\ cfg.KEEPA_API_KEY
  /\ ~cfg.SLACK_WEBHOOK_URL
  /\ runNo = MaxRuns
  /\ ended = "fatal"
  /\ file.kind = "state"

(***************************************************************************)
(* Properties of the periodic runner (under SpecRunner).                   *)
(***************************************************************************)
AliveChildren == {c \in 1..Len(dRes.children) : dRes.children[c].alive}

\* C27 (as stated): at no time are two monitor child processes in progress,
\* and a tick that fires while the child spawned before is still in progress
\* spawns nothing.
\* shutdown sends SIGTERM to the child, which sets child.killed at once; a
\* tick that fires before that child is gone and before the runner exits
\* (500 ms later) finds isRunning false and spawns a second child.
C27_OneChildAtATime ==
  /\ [](Cardinality(AliveChildren) <= 1)
  /\ [][(AliveChildren # {} /\ ~dRes.gone) =>
          Len(dRes'.children) = Len(dRes.children)]_vars

(***************************************************************************)
(* Properties of fetchAsinsForProfile (under SpecFinder).                  *)
(***************************************************************************)
\* C28: the search requests pages 0, 1, 2, ... in this order, at most
\* FINDER_MAX_PAGES of them; every page before the last requested one came
\* back full, so nothing is requested after an empty or a short page; and
\* the search stops only for one of these reasons.
C28_Paging ==
  dRes.done =>
    LET reqs == dRes.requests IN
    /\ \A i \in 1..Len(reqs) : reqs[i].page = i - 1
    /\ \A i \in 1..Len(reqs) : reqs[i].size = Len(dPrev[i])
    /\ Len(reqs) <= dCur.maxPages
    /\ \A i \in 1..(Len(reqs) - 1) : reqs[i].size = dCur.perPage
    /\ \/ Len(reqs) = dCur.maxPages
       \/ reqs[Len(reqs)].size < dCur.perPage

C28_Witness ==
  /\ dRes.done
  /\ dCur.maxPages = 2 /\ dCur.perPage = 2
  /\ Len(dPrev[1]) = 1
  /\ Len(dPrev[2]) = 2
  /\ Len(dRes.requests) = 1

\* C29: within one run no asin is accepted for notification twice: the
\* evaluation that accepts an asin finds it not yet accepted in this run,
\* whether the finder listed it twice for one profile or for two profiles.
C29_AcceptedOncePerRun ==
  [][(pc = "item" /\ Len(picked') > Len(picked)) =>
       /\ picked'[Len(picked')].asin \notin accepted
       /\ \A i \in 1..Len(picked) : picked[i].asin # picked'[Len(picked')].asin]_vars

C29_Witness ==
  /\ pIdx = 2
  /\ pc = "chunk"
  /\ found[PROFILES[1].key] = <<"A1", "A1">>
  /\ found[PROFILES[2].key] = <<"A1", "A1">>
  /\ p.outcome = "cooldown"
  /\ p.asin = "A1"
  /\ accepted = {"A1"}
  /\ DeliveredNow("A1")

(***************************************************************************)
(* Properties of the stored entries.                                       *)
(***************************************************************************)
StampOrdered(e) ==
  e.lastNotifiedAt = NULL \/ e.lastNotifiedAt = 0 \/ e.lastNotifiedAt <= e.lastSeenAt

\* C31: in every saved store (the state file, and the temporary file once it
\* is written) each entry's lastNotifiedAt is absent, 0, or a timestamp not
\* later than the entry's lastSeenAt.
C31_NotifiedNotAfterSeen ==
  \A f \in {file, tmp} :
    f.kind = "state" => \A a \in DOMAIN f.asins : StampOrdered(f.asins[a])

\* the second run has saved an item it was notified of in the first run and
\* saw again later, inside the cooldown window
C31_Witness ==
  /\ runNo = 2
  /\ pc = "exit"
  /\ file.kind = "state"
  /\ \E a \in DOMAIN file.asins :
       /\ file.asins[a].lastNotifiedAt > 0
       /\ file.asins[a].lastNotifiedAt < file.asins[a].lastSeenAt
       /\ file.asins[a].lastSeenAt = now

(***************************************************************************)
(* More properties of the diff functions (under SpecDiff).                 *)
(***************************************************************************)
PresenceChange(m) ==
  /\ dPrev # NoPrev
  /\ (dPrev[m] = NULL) # (dCur[m] = NULL)

\* C32: with a previous snapshot present and all other metrics unchanged, a
\* rank, sellers or sold30 value that is null on one side and present on the
\* other does not make the diff significant (shouldNotifyByDiff, and
\* buildDiff of the revision with signed labels).
C32_NullMetricNotSignificant ==
  dRes.done =>
    \A m \in {"rank", "sellers", "sold30"} :
      (PresenceChange(m) /\ OthersEqual(m)) =>
        /\ ~dRes.notify.ok
        /\ dRes.notify.reasons = <<>>
        /\ ~dRes.build.changed

\* a rank that appeared with a value above the rank threshold was evaluated
C32_Witness ==
  /\ dRes.done
  /\ dPrev # NoPrev
  /\ dPrev.rank = NULL
  /\ dCur.rank >= RANK_DELTA_ABS
  /\ OthersEqual("rank")
  /\ ~dRes.notify.ok

\* the trigger of a metric: both values present and |curr - prev| >= threshold
Fired(m) == dPrev[m] # NULL /\ dCur[m] # NULL /\ Abs(dCur[m] - dPrev[m]) >= Threshold(m)

ReasonsOf(rs, m) == {i \in 1..Len(rs) : rs[i].metric = m}

C34_SignedDelta ==
  (dRes.done /\ dPrev # NoPrev) =>
    \A i \in 1..Len(dRes.notify.reasons) :
      LET r == dRes.notify.reasons[i]
      IN r.delta = dCur[r.metric] - dPrev[r.metric]

(***************************************************************************)
(* The waits of withRetry (under SpecRetry).                               *)
(***************************************************************************)
\* C35: the wait after the n-th failure is min(refillIn + 500, 60000) ms
\* when the failure message carries a refillIn value, and otherwise
\* min(500 * 2^(n-1), 10000) ms; no wait exceeds 60000 ms after a rate-limit
\* error or 10000 ms after another error.
C35_RetryWaits ==
  /\ Len(dRes.waits) <= Len(dRes.log)
  /\ \A n \in 1..Len(dRes.waits) :
       LET o == dRes.log[n]
           w == dRes.waits[n]
       IN /\ ~o.ok
          /\ o.refillIn # NULL =>
               /\ w = (IF o.refillIn + 500 < 60000 THEN o.refillIn + 500 ELSE 60000)
               /\ w <= 60000
          /\ o.refillIn = NULL =>
               /\ w = (IF 500 * 2 ^ (n - 1) < 10000 THEN 500 * 2 ^ (n - 1) ELSE 10000)
               /\ w <= 10000

\* a rate-limit wait at its cap and a sixth backoff at its cap (16000 > 10000)
C35_Witness ==
  /\ Len(dRes.waits) = 6
  /\ dRes.log[1].refillIn = 60000
  /\ dRes.waits[1] = 60000
  /\ dRes.log[2].refillIn = 0
  /\ dRes.waits[2] = 500
  /\ dRes.log[3].refillIn = NULL
  /\ dRes.waits[3] = 2000
  /\ dRes.log[6].refillIn = NULL
  /\ dRes.waits[6] = 10000

(***************************************************************************)
(* The identifier list of fetchAsinsForProfile (under SpecFinder).          *)
(***************************************************************************)
\* what the finder returned, page after page, on the requests made
Returned == Concat([i \in 1..Len(dRes.requests) |-> dPrev[i]])

FirstAt(s, x) == CHOOSE i \in 1..Len(s) : s[i] = x /\ \A k \in 1..(i - 1) : s[k] # x

\* C36: the identifier list handed to detail fetching holds every identifier
\* the search returned, each once, in the order of the first occurrences
\* across the pages.
C36_DedupFirstSeenOrder ==
  dRes.done =>
    /\ {dRes.asins[i] : i \in 1..Len(dRes.asins)} = {Returned[i] : i \in 1..Len(Returned)}
    /\ \A a, b \in 1..Len(dRes.asins) : a # b => dRes.asins[a] # dRes.asins[b]
    /\ \A a, b \in 1..Len(dRes.asins) :
         a < b => FirstAt(Returned, dRes.asins[a]) < FirstAt(Returned, dRes.asins[b])

\* an identifier repeated on its page and again on the next page, the other
\* identifier first seen in between
C36_Witness ==
  /\ dRes.done
  /\ dCur.perPage = 2
  /\ dPrev[1] = <<"A2", "A2">>
  /\ dPrev[2] = <<"A1", "A2">>
  /\ Len(dRes.requests) = 2
  /\ dRes.asins = <<"A2", "A1">>

(***************************************************************************)
(* The stored price (under SpecFilter).                                    *)
(***************************************************************************)
\* C37: for every admitted item (one the iteration writes an entry for) the
\* stored price is the product's new-condition price, a positive number:
\* the marketplace-owner price is absent, so the fallback to it is not taken,
\* and the price is not null, zero or negative.
C37_StoredPriceIsNewPrice ==
  (dRes.done /\ dRes.outcome \in Written) =>
    /\ getStatsBasics(dCur.raw).amazonPrice = NULL
    /\ dRes.entry.price = dCur.raw.new
    /\ dRes.entry.price # NULL
    /\ dRes.entry.price > 0

\* an item whose marketplace-owner price is 0 (not positive) was admitted and
\* stored with its new-condition price
C37_Witness ==
  /\ dRes.done
  /\ dCur.raw.amazon = 0
  /\ dCur.raw.new = MIN_PRICE_YEN
  /\ dRes.outcome = "picked"
  /\ dRes.entry.price = MIN_PRICE_YEN

(***************************************************************************)
(* What a run leaves alone.                                                *)
(***************************************************************************)
\* the step is the loop iteration that observed asin a and admitted it
ObservedAdmitted(a) ==
  /\ pc = "item"
  /\ p'.asin = a
  /\ Chunk(asins, ci)[j] = a
  /\ Admitted(Targets(cfg)[pIdx], p'.raw)

\* C38: a run changes a store entry only for an identifier it observed and
\* admitted, and removes an entry only by TTL pruning; every other entry
\* loaded from the state file is written back with all its fields unchanged:
\* the store is loaded as the file has it, it changes only as said while the
\* process lives, the temporary file is written as the store is, and the
\* state file changes only by becoming the temporary file.
C38_FrameOfRun ==
  [][ /\ (pc = "load" /\ pc' = "cleanup" /\ file.kind = "state") => state'.asins = file.asins
      /\ (pc = "cleanup" /\ pc' = "profile") =>
           \A a \in DOMAIN state.asins :
             IF a \in DOMAIN state'.asins
             THEN state'.asins[a] = state.asins[a]
             ELSE state.asins[a].lastSeenAt > 0 /\ state.asins[a].lastSeenAt < now - ttlSec
      /\ (pc \notin {"idle", "load", "cleanup"} /\ pc' # "idle") =>
           /\ \A a \in DOMAIN state.asins : a \in DOMAIN state'.asins
           /\ \A a \in DOMAIN state'.asins :
                (a \notin DOMAIN state.asins \/ state'.asins[a] # state.asins[a])
                  => ObservedAdmitted(a)
      /\ (pc = "save_write" /\ pc' = "save_rename") => tmp'.asins = state.asins
      /\ file' # file => (pc = "save_rename" /\ file' = tmp /\ file'.asins = state.asins)
    ]_vars

\* the second run has saved the entry of the first run, which it did not
\* observe, next to the one it wrote itself
C38_Witness ==
  /\ runNo = 2
  /\ pc = "exit"
  /\ file.kind = "state"
  /\ DOMAIN file.asins = {"A1", "A2"}
  /\ file.asins["A2"].lastSeenAt = now
  /\ file.asins["A1"].lastSeenAt < now
  /\ file.asins["A1"].lastNotifiedAt = file.asins["A1"].lastSeenAt
  /\ file.updatedAt = now

(***************************************************************************)
(* Delivered notifications and the final save (under SpecAll).             *)
(***************************************************************************)
DeliveredInRun == {a \in DOMAIN lastSent : lastSent[a].run = runNo}

\* C39 (as stated): a run in which a notification was delivered and that is
\* not killed from outside goes on to the final save at the end of main,
\* whatever upstream calls fail in later batches and later profiles.
\* main does not: the finder call of a later profile that fails after its
\* retries ends the process before saveState.
C39_DeliveredRunSaves ==
  (pc = "idle" /\ runNo = MaxRuns /\ ended \in {"done", "fatal"} /\ DeliveredInRun # {})
    => ended = "done"

(***************************************************************************)
(* Skipped ticks of the periodic runner (under SpecRunner).                *)
(***************************************************************************)
MonitorTickSkipped == dRes'.skipped > dRes.skipped
DiscoverTickSkipped == dRes'.dskipped > dRes.dskipped

\* C40 (as stated): a tick of a job is skipped only while that job's child
\* is still in progress: once the child has exited the next tick spawns a new
\* run, and a running child of the other job never causes a skip.
\* runOnceMonitor does not: a monitor child ended by a signal the runner did
\* not send keeps exitCode null and killed false, and every later tick is
\* skipped.
C40_SkipOnlyWhileRunning ==
  [][ /\ MonitorTickSkipped => dRes.children[dRes.monitorChild].alive
      /\ DiscoverTickSkipped => dRes.dchildren[dRes.discoverChild].alive
    ]_vars

\* the two guards read their own child only: a monitor tick is skipped
\* exactly on the exitCode and killed properties of monitorChild, a discover
\* tick on those of discoverChild
GuardsIndependent ==
  [][ /\ MonitorTickSkipped =>
           /\ dRes.children[dRes.monitorChild].exitCode = NULL
           /\ ~dRes.children[dRes.monitorChild].killed
      /\ DiscoverTickSkipped =>
           /\ dRes.dchildren[dRes.discoverChild].exitCode = NULL
           /\ ~dRes.dchildren[dRes.discoverChild].killed
      /\ Len(dRes'.children) > Len(dRes.children) =>
           ~(dRes.children[dRes.monitorChild].exitCode = NULL
             /\ ~dRes.children[dRes.monitorChild].killed)
    ]_vars

====
